---- MODULE Spec2Model ----
(***************************************************************************)
(* State-machine model of the nanobot agent core:                          *)
(*   - Agent.run() and its helpers (agent.py)                              *)
(*   - Session, the conversation store (session.py)                        *)
(*   - chat_completion / extract_response, the model gateway (llm.py)      *)
(*   - the task-state tools todo_write / done (tools.py)                   *)
(*                                                                         *)
(* Texts are sequences of tokens.  A token is a TLA+ string standing for   *)
(* one indivisible piece of a Python string: the completion sentinel, a    *)
(* blank, a todo status prefix, or some other word.  Python's None is the  *)
(* one-token text NoneText, which no other text contains.                  *)
(***************************************************************************)
EXTENDS Integers, Sequences, FiniteSets, TLC

VARIABLES
    pc,                         \* position of Agent.run(): idle, call, tools, summ, returned, raised
    stored,                     \* Session._messages
    messages,                   \* the local list `messages` of Agent.run()
    round,                      \* iterations of the for-loop started so far
    incomplete_todos_prompted,  \* local flag of Agent.run()
    tool_calls,                 \* tool calls of the round in progress
    tcIdx,                      \* index of the next tool call to dispatch
    todos,                      \* _TODOS_BY_SESSION[active session]
    final_text,                 \* value returned by Agent.run()
    raised,                     \* what made Agent.run() raise: none, gateway, extract, tool
    sent,                       \* message list handed to the latest gateway call
    sentTools,                  \* whether the latest gateway call had tools enabled
    gwCalls,                    \* tool-enabled chat_completion calls made by this run
    summCalls,                  \* tool-disabled chat_completion calls made by this run
    toolRounds,                 \* rounds whose reply carried tool calls
    dispatched,                 \* _execute_tool calls made by this run
    doneSeen,                   \* a done call returned the sentinel in this run
    nextId,                     \* next call id the backend hands out
    free,                       \* rounds in which the backend may still pick any reply
    user_message,               \* argument of Agent.run()
    runStart,                   \* index in stored of the message this run appended first
    run_text,                   \* local `text` of Agent.run(): what extract_response returned
    cc_pc,                      \* position of chat_completion(): idle, try, sleeping, returned, raised
    max_retries,                \* st.secrets llm.max_retries
    base_delay,                 \* st.secrets llm.retry_base_delay, in milliseconds
    attempt,                    \* loop variable of chat_completion()
    backendCalls,               \* litellm.acompletion calls made by this chat_completion()
    sleeps,                     \* arguments of asyncio.sleep in call order: backoff and jitter
    errors,                     \* errors raised by the backend, in call order
    last_err,                   \* local last_err of chat_completion()
    cc_result,                  \* what chat_completion() returned or raised
    drive,                      \* whether Drive accepts every upload ("up") or may reject one ("flaky")
    pending_sync,               \* the session file is marked for a deferred sync
    lastOp,                     \* the public Session operation applied last
    session_ctx,                \* _SESSION_ID_CTX of each call chain
    depth_ctx,                  \* _SUBAGENT_DEPTH_CTX of each call chain
    todos_by_session,           \* _TODOS_BY_SESSION
    files,                      \* number of messages in each session file of the store
    stack,                      \* the Agent.run() invocations in progress in each call chain
    now,                        \* int(time.time())
    ops,                        \* steps each call chain may still take
    log,                        \* per call chain: what its latest tool call or decision used
    tool_env,                   \* whether every tool callable completes ("prompt") or one may never do ("stalling")
    discover_pc,                \* position of the registry construction: idle, start, built
    tool_modules,               \* the modules handed to _discover_tools, each a list of members
    registry,                   \* _TOOL_REGISTRY
    tool_schemas,               \* _TOOL_SCHEMAS, as the callables the schemas were built from
    tg_cfg,                     \* st.secrets["telegram"]
    tg_update,                  \* the Telegram update in _handle_message
    tg_out,                     \* what _handle_message did with the update
    disk_log,                   \* the session file of one identity in the store
    mem_log,                    \* Session._messages of each Session instance of that identity
    appended,                   \* the messages appended to that identity since the last clear, in order
    append_count,               \* how many messages were ever appended to that identity
    cron_file,                  \* CRON_TASKS.json: the persisted task list
    cron_stack,                 \* the Agent.run() and run_due_tasks invocations in progress, outermost first
    cron_ids,                   \* how many task ids create_task has handed out
    cron_made,                  \* ids create_task has handed out and delete_task has not removed
    cron_budget                 \* runs the callers and the model may still start

runVars == <<pc, stored, messages, round, incomplete_todos_prompted, tool_calls,
             tcIdx, todos, final_text, raised, sent, sentTools, gwCalls,
             summCalls, toolRounds, dispatched, doneSeen, nextId, free,
             user_message, runStart, run_text>>
ccVars == <<cc_pc, max_retries, base_delay, attempt, backendCalls, sleeps,
            errors, last_err, cc_result>>
storeVars == <<drive, pending_sync, lastOp>>
ctxVars == <<session_ctx, depth_ctx, todos_by_session, files, stack, now, ops, log>>
auxVars ==
    <<tool_env, discover_pc, tool_modules, registry, tool_schemas,
      tg_cfg, tg_update, tg_out,
      disk_log, mem_log, appended, append_count,
      cron_file, cron_stack, cron_ids, cron_made, cron_budget>>
vars == <<runVars, ccVars, storeVars, ctxVars, auxVars>>

-----------------------------------------------------------------------------
(* Bounds of the model                                                     *)

\* rounds of one run in which the backend may pick any reply of FreeReplies
FreeRounds == 1
\* most items in one todo_write call
MaxTodoItems == 2
\* most tool calls in one reply
MaxCalls == 2
\* plain question/answer turns in the longest stored history
MaxPriorTurns == 18
\* largest configured llm.max_retries
MaxRetriesCfg == 3
\* steps of a call chain: one less for chain A, one more for chain B
MaxOps == 3
\* seconds the clock advances
MaxClock == 1
\* most messages in a Session the public operations are applied to
MaxSessionLen == 3
\* names a tool module may define
MaxToolNames == 3

\* messages appended to the shared conversation
MaxAppends == 3

\* cron tasks created
MaxCronTasks == 2
\* tasks in the cron file when run_due_tasks is called
MaxDueTasks == 2
\* minutes that pass while one run_due_tasks call is in progress
MaxDueClock == 2

\* runs started by a caller, by spawn_subagent or by a cron_run_due call
MaxCronRuns == 4

-----------------------------------------------------------------------------
(* Program constants                                                       *)

MAX_TOOL_ITERATIONS == 25
MAX_HISTORY_MESSAGES == 40
TASK_COMPLETE_PREFIX == "TASK COMPLETE:"
MAX_ITERATIONS_SUMMARY_PROMPT == <<"The task reached the maximum number of tool iterations.">>
MaxIterationsMarker == "[Max iterations reached]"
MaxIterationsCanned == <<"I reached the maximum number of tool iterations without a final answer.">>
TaskCompletedText == <<"Task completed.">>
NudgeText == <<"You still have incomplete todos.">>
NoneText == <<"None">>
Blank == " "
Newlines == "\n\n"
Whitespace == {Blank, Newlines}

-----------------------------------------------------------------------------
(* Python string operations on token sequences                             *)

RECURSIVE LStrip(_)
LStrip(t) == IF t # <<>> /\ Head(t) \in Whitespace THEN LStrip(Tail(t)) ELSE t

\* a strip that leaves trailing whitespace in place
Strip_left_only(t) == LStrip(t)

\* str.strip()
Strip(t) ==
    LET RECURSIVE RStrip(_)
        RStrip(r) ==
            IF r # <<>> /\ r[Len(r)] \in Whitespace THEN RStrip(SubSeq(r, 1, Len(r) - 1)) ELSE r
    IN  RStrip(LStrip(t))

\* str.startswith(prefix) for a one-token prefix
StartsWith(t, prefix) == t # <<>> /\ Head(t) = prefix

\* Python truthiness of an optional text: None and "" are falsy
Truthy(t) == t # NoneText /\ t # <<>>

\* `x or default`
OrElse(t, default) == IF Truthy(t) THEN t ELSE default

-----------------------------------------------------------------------------
(* Messages                                                                *)

Msg(role, content) ==
    [role |-> role, content |-> content, tool_calls |-> <<>>,
     tool_call_id |-> 0, name |-> ""]

ToolCallMsg(content, calls) ==
    [role |-> "assistant", content |-> content,
     tool_calls |-> [i \in 1..Len(calls) |-> [id |-> calls[i].id, name |-> calls[i].name]],
     tool_call_id |-> 0, name |-> ""]

ToolResultMsg(id, name, result) ==
    [role |-> "tool", content |-> result, tool_calls |-> <<>>,
     tool_call_id |-> id, name |-> name]

-----------------------------------------------------------------------------
(* session.py                                                              *)

\* Session._save: serialise all messages and hand them to write_file; every
\* append, replace_messages and clear ends with it
_save ==
    LET \* drive_sync.write_file: write the local cache, then try the upload; a
        \* rejected upload is caught, the file is marked for a deferred sync and the
        \* call returns normally; an accepted upload clears the mark
        write_file(upload) == [returns |-> TRUE, pending |-> upload = "rejected"]
    IN
    LET \* what Drive does with one upload
        UploadOutcomes(d) == IF d = "up" THEN {"ok"} ELSE {"ok", "rejected"}
    IN  \E upload \in UploadOutcomes(drive) : pending_sync' = write_file(upload).pending

\* Session.add_message: append {"role", "content"} and save
add_message(msgs, role, content) == Append(msgs, Msg(role, content))

\* an add_tool_call that loses the message
add_tool_call_lost(msgs, tool_call) == msgs

\* Session.add_tool_call: append the raw tool-call message and save
add_tool_call(msgs, tool_call) == Append(msgs, tool_call)

\* an add_tool_result that correlates every result with the name, not the id
add_tool_result_no_id(msgs, tool_call_id, name, result) ==
    Append(msgs, ToolResultMsg(0, name, result))

\* Session.add_tool_result: append a tool-role message and save
add_tool_result(msgs, tool_call_id, name, result) ==
    Append(msgs, ToolResultMsg(tool_call_id, name, result))

\* Session.get_messages_since: self._messages[max(0, start_index):]
get_messages_since(msgs, start_index) ==
    SubSeq(msgs, (IF start_index < 0 THEN 0 ELSE start_index) + 1, Len(msgs))

\* Session.replace_messages: self._messages = list(messages), then save
replace_messages(msgs, new) == new

\* Session.clear: self._messages = [], then save
clear(msgs) == <<>>

\* Session.get_messages: self._messages[-MAX_HISTORY_MESSAGES:]
\* a history read that returns the whole list
get_messages_untruncated(msgs) == msgs

get_messages(msgs) ==
    IF Len(msgs) <= MAX_HISTORY_MESSAGES THEN msgs
    ELSE SubSeq(msgs, Len(msgs) - MAX_HISTORY_MESSAGES + 1, Len(msgs))

-----------------------------------------------------------------------------
(* tools.py: session-scoped todo list and the completion tool              *)

TodoItem(content, status) == [content |-> content, status |-> status]

\* _parse_todo_item: strip, map a leading status prefix, default to pending
_parse_todo_item(item) ==
    LET \* str.lower() of one token
        Lower(tok) == IF tok = "[X]" THEN "[x]" ELSE tok
    IN
    LET text == Strip(item)
        first == IF text = <<>> THEN "" ELSE Lower(Head(text))
        status == CASE first = "[ ]" -> "pending"
                    [] first = "[>]" -> "in_progress"
                    [] first = "[x]" -> "completed"
                    [] OTHER -> "pending"
        content == IF first \in {"[ ]", "[>]", "[x]"} THEN Strip(Tail(text)) ELSE text
    IN  TodoItem(IF content = <<>> THEN <<"(empty task)">> ELSE content, status)

\* the list comprehension of todo_write: parse every non-blank item, in order
RECURSIVE ParseItems(_)
ParseItems(items) ==
    IF items = <<>> THEN <<>>
    ELSE IF Strip(Head(items)) = <<>> THEN ParseItems(Tail(items))
    ELSE <<_parse_todo_item(Head(items))>> \o ParseItems(Tail(items))

\* _todo_stats: (pending, in_progress, completed)
_todo_stats(list) ==
    [pending     |-> Cardinality({i \in 1..Len(list) : list[i].status = "pending"}),
     in_progress |-> Cardinality({i \in 1..Len(list) : list[i].status = "in_progress"}),
     completed   |-> Cardinality({i \in 1..Len(list) : list[i].status = "completed"})]

\* _has_incomplete_todos / _session_has_incomplete_todos
_has_incomplete_todos(list) ==
    _todo_stats(list).pending + _todo_stats(list).in_progress > 0

\* done(message): f"{TASK_COMPLETE_PREFIX} {message}".strip()
done(message) == Strip(<<TASK_COMPLETE_PREFIX, Blank>> \o message)

-----------------------------------------------------------------------------
(* agent.py: tool registry and dispatch                                    *)

\* the part of _TOOL_REGISTRY the model exercises
_TOOL_REGISTRY == {"web_search", "done", "todo_write", "python_exec_unsafe"}

Str(text) == [kind |-> "str", val |-> text]
Escapes(exc) == [kind |-> "raise", val |-> <<exc>>]

\* fn(**arguments): Python binds the keywords first (TypeError on a mismatch),
\* then runs the body, which returns a text, raises, or never completes.
CallTool(call) ==
    LET \* text returned by todo_write
        TodoWriteText(list) ==
            <<"Todos updated:", ToString(_todo_stats(list).pending),
              ToString(_todo_stats(list).in_progress), ToString(_todo_stats(list).completed)>>
    IN  IF call.kw # "ok" THEN [kind |-> "TypeError", val |-> <<>>]
    ELSE CASE call.beh = "raises" -> [kind |-> "Exception", val |-> <<>>]
           [] call.beh = "exits"  -> [kind |-> "SystemExit", val |-> <<>>]
           [] call.beh = "hangs"  -> [kind |-> "pending", val |-> <<>>]
           [] OTHER ->
                [kind |-> "returns",
                 val  |-> CASE call.name = "done" -> done(call.message)
                            [] call.name = "todo_write" -> TodoWriteText(ParseItems(call.items))
                            [] OTHER -> call.message]

\* an _execute_tool that raises on a name absent from the registry
_execute_tool_unknown_raises(call) ==
    IF call.name \notin _TOOL_REGISTRY
    THEN Escapes("KeyError")
    ELSE LET out == CallTool(call)
         IN  CASE out.kind = "returns"   -> Str(out.val)
               [] out.kind = "TypeError" -> Str(<<"Error calling tool", call.name>>)
               [] out.kind = "Exception" -> Str(<<"Tool", call.name, "raised an error">>)
               [] out.kind = "pending"   -> [kind |-> "pending", val |-> <<>>]
               [] OTHER -> Escapes(out.kind)

\* _execute_tool: unknown name, TypeError and Exception become error texts;
\* an exception outside the Exception hierarchy passes through both handlers;
\* the awaits carry no timeout, so a callable that never completes leaves
\* _execute_tool pending
_execute_tool(call) ==
    IF call.name \notin _TOOL_REGISTRY
    THEN Str(<<"Error: unknown tool", call.name>>)
    ELSE LET out == CallTool(call)
         IN  CASE out.kind = "returns"   -> Str(out.val)
               [] out.kind = "TypeError" -> Str(<<"Error calling tool", call.name>>)
               [] out.kind = "Exception" -> Str(<<"Tool", call.name, "raised an error">>)
               [] out.kind = "pending"   -> [kind |-> "pending", val |-> <<>>]
               [] OTHER -> Escapes(out.kind)

\* a todo_write that adds to the list it finds
TodosAfter_appends(call, list) ==
    IF call.name = "todo_write" /\ call.kw = "ok" /\ call.beh = "returns"
    THEN list \o ParseItems(call.items) ELSE list

\* the todo list of the active session after the tool body ran
TodosAfter(call, list) ==
    IF call.name = "todo_write" /\ call.kw = "ok" /\ call.beh = "returns"
    THEN ParseItems(call.items) ELSE list

\* _extract_done_message that looks for the sentinel under the wrong tool name
_extract_done_message_wrong_name(tool_name, result) ==
    LET text == Strip(OrElse(result, <<>>))
    IN  IF tool_name = "complete" /\ StartsWith(text, TASK_COMPLETE_PREFIX)
        THEN OrElse(Strip(Tail(text)), TaskCompletedText)
        ELSE NoneText

\* _extract_done_message: the text after the sentinel, or None
_extract_done_message(tool_name, result) ==
    LET text == Strip(OrElse(result, <<>>))
    IN  IF tool_name = "done" /\ StartsWith(text, TASK_COMPLETE_PREFIX)
        THEN OrElse(Strip(Tail(text)), TaskCompletedText)
        ELSE NoneText

-----------------------------------------------------------------------------
(* llm.py: response normalisation                                          *)

\* extract_response: (message.content or None, parsed tool calls);
\* json.loads raises on a malformed argument payload
extract_response(response) ==
    IF \E i \in 1..Len(response.tool_calls) : response.tool_calls[i].json # "ok"
    THEN [kind |-> "raise", text |-> NoneText, tool_calls |-> <<>>]
    ELSE [kind |-> "ok",
          text |-> OrElse(response.content, NoneText),
          tool_calls |-> response.tool_calls]

\* _summarize_max_iterations that lets the gateway failure through
_summarize_max_iterations_no_catch(outcome) ==
    IF outcome.kind = "raise" THEN Escapes("gateway")
    ELSE LET text == extract_response(outcome).text
         IN  IF Truthy(text) /\ Strip(text) # <<>>
             THEN Str(<<MaxIterationsMarker, Newlines>> \o Strip(text))
             ELSE Str(MaxIterationsCanned)

\* _summarize_max_iterations: marker + stripped text, or the canned message
\* when the call raised or returned no text
_summarize_max_iterations(outcome) ==
    IF outcome.kind = "raise" THEN Str(MaxIterationsCanned)
    ELSE LET text == extract_response(outcome).text
         IN  IF Truthy(text) /\ Strip(text) # <<>>
             THEN Str(<<MaxIterationsMarker, Newlines>> \o Strip(text))
             ELSE Str(MaxIterationsCanned)

-----------------------------------------------------------------------------
(* The backend and the tools as the environment of one run                 *)

\* One requested tool call together with what its callable will do:
\*   json    "ok" | "bad"          whether function.arguments is valid JSON
\*   kw      "ok" | "missing"      whether the keywords fit the signature
\*   message                       done's message; the text any other tool returns
\*   items                         todo_write's items
\*   beh     "returns" | "raises" | "exits"
Kind(name, json, kw, message, items, beh) ==
    [name |-> name, json |-> json, kw |-> kw, message |-> message,
     items |-> items, beh |-> beh]

Reply(content, calls) == [kind |-> "reply", content |-> content, tool_calls |-> calls]
GatewayFailure == [kind |-> "raise", content |-> NoneText, tool_calls |-> <<>>]

\* what a tool-enabled chat_completion call can come back with
GatewayOutcomes(f) ==
    LET UnknownCall == Kind("no_such_tool", "ok", "ok", <<>>, <<>>, "returns")
    IN
    LET PlainCall == Kind("web_search", "ok", "ok", <<"r">>, <<>>, "returns")
    IN
    LET \* the replies open to the backend in a free round
        FreeReplies ==
            LET \* calls the backend requests on their own
                LoneCallKinds ==
                    { Kind("done", "ok", "missing", <<>>, <<>>, "returns"),
                      Kind("done", "ok", "ok", <<Blank, "a", Blank>>, <<>>, "returns"),
                      Kind("done", "ok", "ok", <<>>, <<>>, "returns"),
                      Kind("todo_write", "ok", "ok", <<>>, << <<"[ ]", Blank, "a">> >>, "returns"),
                      Kind("todo_write", "ok", "ok", <<>>, << <<"[x]", Blank, "a">> >>, "returns"),
                      UnknownCall,
                      Kind("python_exec_unsafe", "ok", "ok", <<>>, <<>>, "exits"),
                      Kind("web_search", "bad", "ok", <<>>, <<>>, "returns") }
            IN
            LET \* calls the backend combines freely in one reply
                CallKinds ==
                    { PlainCall,
                      Kind("done", "ok", "ok", <<"a">>, <<>>, "returns") }
            IN  { Reply(NoneText, calls) : calls \in UNION { [1..n -> CallKinds] : n \in 1..MaxCalls } }
            \cup { Reply(NoneText, <<k>>) : k \in LoneCallKinds }
            \cup { Reply(NoneText, <<>>),
                   Reply(<<"t">>, <<PlainCall>>),
                   Reply(NoneText, <<UnknownCall, PlainCall>>) }
    IN
    LET \* the replies open to the backend in every round: a text, or one plain call
        BaseReplies == { Reply(<<"t">>, <<>>), Reply(NoneText, <<PlainCall>>) }
    IN
    LET \* the replies that request it
        StallReplies ==
            LET \* a call whose callable never completes
                StallingCall == Kind("python_exec_unsafe", "ok", "ok", <<>>, <<>>, "hangs")
            IN  { Reply(NoneText, <<StallingCall>>), Reply(NoneText, <<PlainCall, StallingCall>>) }
    IN  {GatewayFailure} \cup BaseReplies \cup (IF f > 0 THEN FreeReplies ELSE {})
    \cup (IF f > 0 /\ tool_env = "stalling" THEN StallReplies ELSE {})

\* the backend numbers the calls of a reply with fresh ids
WithIds(response, first) ==
    [response EXCEPT !.tool_calls =
        [i \in 1..Len(response.tool_calls) |->
            [id |-> first + i - 1, name |-> response.tool_calls[i].name,
             json |-> response.tool_calls[i].json, kw |-> response.tool_calls[i].kw,
             message |-> response.tool_calls[i].message,
             items |-> response.tool_calls[i].items,
             beh |-> response.tool_calls[i].beh]]]

-----------------------------------------------------------------------------
(* Histories earlier runs left in the store                                *)

ShortHistories == { <<>> }
-----------------------------------------------------------------------------
(* llm.py: chat_completion and its backend                                 *)

\* an exception raised by litellm.acompletion: its status_code attribute
\* (0 when it has none) and its class
Error(status, type) == [status |-> status, type |-> type]
NoError == Error(0, "None")

BackendErrors ==
    { Error(c, "APIError") : c \in {429, 500, 502, 503, 504, 400} }
    \cup { Error(0, "TimeoutError"), Error(0, "ConnectionError"), Error(0, "ValueError") }

retryable_status_codes == {429, 500, 502, 503, 504}

\* a retry test that looks at the status code only
should_retry_status_only(exc) == exc.status \in retryable_status_codes

\* should_retry = status in retryable_status_codes or
\*                isinstance(exc, (TimeoutError, ConnectionError))
should_retry(exc) ==
    \/ exc.status \in retryable_status_codes
    \/ exc.type \in {"TimeoutError", "ConnectionError"}

\* a give-up test that stops one attempt early
GiveUp_one_early(att, maxr, exc) == att + 1 >= maxr \/ ~should_retry(exc)

\* `if attempt >= max_retries or not should_retry: raise`
GiveUp(att, maxr, exc) == att >= maxr \/ ~should_retry(exc)

RECURSIVE Pow2(_)
Pow2(n) == IF n = 0 THEN 1 ELSE 2 * Pow2(n - 1)

\* default of llm.max_retries
DefaultMaxRetries == 3

\* a backoff without the upper bound
Backoff_uncapped(base, att) == base * Pow2(att)

\* backoff = min(base_delay * (2 ** attempt), 20.0), in milliseconds
Backoff(base, att) ==
    LET \* upper bound of the backoff, in milliseconds (20.0 seconds)
        BackoffCap == 20000
    IN
    LET Min(a, b) == IF a <= b THEN a ELSE b
    IN  Min(base * Pow2(att), BackoffCap)

-----------------------------------------------------------------------------
(* tools.py: context-local session binding, subagents, nested cron runs    *)

\* the call chains (asyncio tasks or threads) running top-level runs; each has
\* its own copy of the context variables
Chains == {"A", "B"}

\* the conversation identity a call chain runs its top-level runs for
Identity(c) == <<c>>

\* a dict without entries
NoEntries == [k \in {} |-> 0]

\* dict.get(k, default)
Get(f, k, default) == IF k \in DOMAIN f THEN f[k] ELSE default

\* f[k] = v
Put(f, k, v) == [x \in DOMAIN f \cup {k} |-> IF x = k THEN v ELSE f[x]]

\* _set_active_session_id: (session_id or "default").strip() or "default"
_set_active_session_id(session_id) ==
    IF Strip(OrElse(session_id, <<"default">>)) = <<>> THEN <<"default">>
    ELSE Strip(OrElse(session_id, <<"default">>))

\* child_id = f"sub_{parent}_{int(time.time())}"
child_id(parent, t) == <<"sub_">> \o parent \o <<"_", ToString(t)>>

Top(c) == stack[c][Len(stack[c])]

Pop(st) == SubSeq(st, 1, Len(st) - 1)

\* what the latest step of a call chain did: the operation, the run that
\* issued it, the todo key it used, its outcome, the depth it read, the
\* number of messages a constructed Session loaded
LogEntry(op, run, key, result, depth, loaded) ==
    [op |-> op, run |-> run, key |-> key, result |-> result, depth |-> depth,
     loaded |-> loaded]

-----------------------------------------------------------------------------
(* Initial states                                                          *)

ccIdle ==
    /\ cc_pc = "idle"
    /\ max_retries = 0
    /\ base_delay = 0
    /\ attempt = 0
    /\ backendCalls = 0
    /\ sleeps = <<>>
    /\ errors = <<>>
    /\ last_err = NoError
    /\ cc_result = "none"

runInit(histories) ==
    LET \* ids used by the tool calls of a message list
        CallIds(msgs) ==
            UNION { { msgs[i].tool_calls[j].id : j \in 1..Len(msgs[i].tool_calls) } : i \in 1..Len(msgs) }
    IN
    LET FreshId(msgs) == IF CallIds(msgs) = {} THEN 1
                         ELSE 1 + CHOOSE m \in CallIds(msgs) : \A k \in CallIds(msgs) : k <= m
    IN
    LET InitTodos == { <<>>, <<TodoItem(<<"a">>, "in_progress")>> }
    IN
    /\ pc = "idle"
    /\ stored \in histories
    /\ messages = <<>>
    /\ round = 0
    /\ incomplete_todos_prompted = FALSE
    /\ tool_calls = <<>>
    /\ tcIdx = 0
    /\ todos \in InitTodos
    /\ final_text = NoneText
    /\ raised = "none"
    /\ sent = <<>>
    /\ sentTools = FALSE
    /\ gwCalls = 0
    /\ summCalls = 0
    /\ toolRounds = 0
    /\ dispatched = 0
    /\ doneSeen = FALSE
    /\ nextId = FreshId(stored)
    /\ free = FreeRounds
    /\ user_message = NoneText
    /\ runStart = 0
    /\ run_text = NoneText

\* the store before the first write of a run
storeIdle(d) ==
    /\ drive = d
    /\ pending_sync = FALSE
    /\ lastOp = "none"

\* the process before any call chain has started a run
ctxIdle ==
    LET NoLog == LogEntry("none", <<>>, <<>>, "none", 0, 0)
    IN
    /\ session_ctx = [c \in Chains |-> <<"default">>]
    /\ depth_ctx = [c \in Chains |-> 0]
    /\ todos_by_session = NoEntries
    /\ files = NoEntries
    /\ stack = [c \in Chains |-> <<>>]
    /\ now = 0
    /\ ops = [c \in Chains |-> IF c = "A" THEN MaxOps - 1 ELSE MaxOps + 1]
    /\ log = [c \in Chains |-> NoLog]

\* the tool registry, the Telegram handler, the shared conversation and the
\* cron scheduler before use; `active` names the one a specification
\* initialises itself
auxIdle(active) ==
    /\ IF active = "registry" THEN TRUE
       ELSE /\ discover_pc = "idle"
            /\ tool_modules = <<>>
            /\ registry = NoEntries
            /\ tool_schemas = <<>>
    /\ IF active = "telegram" THEN TRUE
       ELSE /\ tg_cfg = <<>>
            /\ tg_update = <<>>
            /\ tg_out = <<>>
    /\ IF active = "instances" THEN TRUE
       ELSE /\ disk_log = <<>>
            /\ mem_log = <<>>
            /\ appended = <<>>
            /\ append_count = 0
    /\ IF active = "cron" THEN TRUE
       ELSE /\ cron_file = <<>>
            /\ cron_stack = <<>>
            /\ cron_ids = 0
            /\ cron_made = {}
            /\ cron_budget = 0

Init == runInit(ShortHistories) /\ ccIdle /\ storeIdle("up") /\ ctxIdle /\ auxIdle("none") /\ tool_env = "prompt"

InitHistory ==
    LET LongHistories ==
            LET \* a turn with one round of two tool calls, as a run of this model leaves it
                ToolTurn ==
                    << Msg("user", <<"u">>),
                       ToolCallMsg(NoneText, <<[id |-> 1, name |-> "web_search"],
                                               [id |-> 2, name |-> "web_search"]>>),
                       ToolResultMsg(1, "web_search", <<"r">>),
                       ToolResultMsg(2, "web_search", <<"r">>),
                       Msg("assistant", <<"t">>) >>
            IN
            LET PlainTurns(n) ==
                    [i \in 1..(2 * n) |->
                        IF i % 2 = 1 THEN Msg("user", <<"u">>) ELSE Msg("assistant", <<"t">>)]
            IN  { ToolTurn \o PlainTurns(n) : n \in (MaxPriorTurns - 1)..MaxPriorTurns }
    IN  runInit(LongHistories) /\ ccIdle /\ storeIdle("up") /\ ctxIdle /\ auxIdle("none") /\ tool_env = "prompt"

\* a run while Drive may reject uploads
InitStore == runInit(ShortHistories) /\ ccIdle /\ storeIdle("flaky") /\ ctxIdle /\ auxIdle("none") /\ tool_env = "prompt"

-----------------------------------------------------------------------------
(* Agent.run()                                                             *)

\* a loop that runs one iteration more than MAX_TOOL_ITERATIONS
NextPc_one_more(r) == IF r <= MAX_TOOL_ITERATIONS THEN "call" ELSE "summ"

\* where the for-loop goes after iteration r: the next model call, or the
\* summarization once range(MAX_TOOL_ITERATIONS) is used up
NextPc(r) == IF r < MAX_TOOL_ITERATIONS THEN "call" ELSE "summ"

\* a nudge condition that forgets the one-time flag
NudgeDue_every_time(prompted, list) == _has_incomplete_todos(list)

\* `not incomplete_todos_prompted and _session_has_incomplete_todos()`
NudgeDue(prompted, list) == ~prompted /\ _has_incomplete_todos(list)

\* run() up to the loop: bind the session, persist the user message, build
\* [system] + session.get_messages()
Start ==
    LET SystemPrompt == <<"system prompt">>
    IN
    LET UserMessages == { <<"u">> }
    IN
    /\ pc = "idle"
    /\ \E u \in UserMessages :
         /\ user_message' = u
         /\ stored' = add_message(stored, "user", u)
         /\ messages' = <<Msg("system", SystemPrompt)>> \o get_messages(stored')
    /\ _save
    /\ runStart' = Len(stored) + 1
    /\ pc' = "call"
    /\ UNCHANGED run_text
    /\ UNCHANGED <<round, incomplete_todos_prompted, tool_calls, tcIdx, todos,
                   final_text, raised, sent, sentTools, gwCalls, summCalls,
                   toolRounds, dispatched, doneSeen, nextId, free>>
    /\ UNCHANGED <<drive, lastOp>>
    /\ UNCHANGED <<ccVars, ctxVars, auxVars>>

\* bookkeeping common to every tool-enabled chat_completion call
GatewayCalled(response) ==
    /\ round' = round + 1
    /\ gwCalls' = gwCalls + 1
    /\ sent' = messages
    /\ sentTools' = TRUE
    /\ free' = IF free > 0 THEN free - 1 ELSE 0
    /\ nextId' = nextId + Len(response.tool_calls)

\* a run() that catches the gateway failure and answers with a canned text
ModelCallRaises_swallowed ==
    /\ pc = "call"
    /\ GatewayCalled(GatewayFailure)
    /\ pc' = "returned"
    /\ raised' = "gateway"
    /\ final_text' = MaxIterationsCanned
    /\ stored' = add_message(stored, "assistant", MaxIterationsCanned)
    /\ UNCHANGED <<messages, incomplete_todos_prompted, tool_calls, tcIdx,
                   todos, summCalls, toolRounds, dispatched, doneSeen>>
    /\ UNCHANGED <<user_message, runStart, run_text>>
    /\ UNCHANGED storeVars
    /\ UNCHANGED <<ccVars, ctxVars, auxVars>>

\* chat_completion raises: the exception leaves run()
ModelCallRaises ==
    /\ pc = "call"
    /\ GatewayCalled(GatewayFailure)
    /\ pc' = "raised"
    /\ raised' = "gateway"
    /\ UNCHANGED <<stored, messages, incomplete_todos_prompted, tool_calls, tcIdx,
                   todos, final_text, summCalls, toolRounds, dispatched, doneSeen>>
    /\ UNCHANGED <<user_message, runStart, run_text>>
    /\ UNCHANGED storeVars
    /\ UNCHANGED <<ccVars, ctxVars, auxVars>>

\* extract_response raises on the reply: the exception leaves run()
ModelCallUnparsable ==
    /\ pc = "call"
    /\ \E response \in GatewayOutcomes(free) :
         /\ response.kind = "reply"
         /\ extract_response(WithIds(response, nextId)).kind = "raise"
         /\ GatewayCalled(response)
    /\ pc' = "raised"
    /\ raised' = "extract"
    /\ UNCHANGED <<stored, messages, incomplete_todos_prompted, tool_calls, tcIdx,
                   todos, final_text, summCalls, toolRounds, dispatched, doneSeen>>
    /\ UNCHANGED <<user_message, runStart>>
    /\ UNCHANGED run_text
    /\ UNCHANGED storeVars
    /\ UNCHANGED <<ccVars, ctxVars, auxVars>>

\* a nudge round that also appends the nudge to the Conversation
ModelCallNudge_persisted ==
    /\ pc = "call"
    /\ \E response \in GatewayOutcomes(free) :
         /\ response.kind = "reply"
         /\ extract_response(WithIds(response, nextId)).kind = "ok"
         /\ extract_response(WithIds(response, nextId)).tool_calls = <<>>
         /\ run_text' = extract_response(WithIds(response, nextId)).text
         /\ GatewayCalled(response)
    /\ NudgeDue(incomplete_todos_prompted, todos)
    /\ incomplete_todos_prompted' = TRUE
    /\ messages' = Append(messages, Msg("user", NudgeText))
    /\ pc' = NextPc(round + 1)
    /\ stored' = add_message(stored, "user", NudgeText)
    /\ UNCHANGED <<tool_calls, tcIdx, todos, final_text, raised, summCalls,
                   toolRounds, dispatched, doneSeen>>
    /\ UNCHANGED <<user_message, runStart>>
    /\ _save
    /\ UNCHANGED <<drive, lastOp>>
    /\ UNCHANGED <<ccVars, ctxVars, auxVars>>

\* reply without tool calls while the nudge is due: append the nudge to the
\* outbound list only and continue with the next iteration
ModelCallNudge ==
    /\ pc = "call"
    /\ \E response \in GatewayOutcomes(free) :
         /\ response.kind = "reply"
         /\ extract_response(WithIds(response, nextId)).kind = "ok"
         /\ extract_response(WithIds(response, nextId)).tool_calls = <<>>
         /\ run_text' = extract_response(WithIds(response, nextId)).text
         /\ GatewayCalled(response)
    /\ NudgeDue(incomplete_todos_prompted, todos)
    /\ incomplete_todos_prompted' = TRUE
    /\ messages' = Append(messages, Msg("user", NudgeText))
    /\ pc' = NextPc(round + 1)
    /\ UNCHANGED <<stored, tool_calls, tcIdx, todos, final_text, raised, summCalls,
                   toolRounds, dispatched, doneSeen>>
    /\ UNCHANGED <<user_message, runStart>>
    /\ UNCHANGED storeVars
    /\ UNCHANGED <<ccVars, ctxVars, auxVars>>

\* reply without tool calls, no nudge due: persist and return the text
ModelCallFinal ==
    LET NoResponseText == <<"(no response)">>
    IN
    /\ pc = "call"
    /\ ~NudgeDue(incomplete_todos_prompted, todos)
    /\ \E response \in GatewayOutcomes(free) :
         LET ex == extract_response(WithIds(response, nextId))
         IN  /\ response.kind = "reply"
             /\ ex.kind = "ok"
             /\ ex.tool_calls = <<>>
             /\ run_text' = ex.text
             /\ GatewayCalled(response)
             /\ final_text' = OrElse(ex.text, NoResponseText)
             /\ stored' = add_message(stored, "assistant", OrElse(ex.text, NoResponseText))
    /\ pc' = "returned"
    /\ UNCHANGED <<messages, incomplete_todos_prompted, tool_calls, tcIdx, todos,
                   raised, summCalls, toolRounds, dispatched, doneSeen>>
    /\ UNCHANGED <<user_message, runStart>>
    /\ _save
    /\ UNCHANGED <<drive, lastOp>>
    /\ UNCHANGED <<ccVars, ctxVars, auxVars>>

\* reply with tool calls: append the assistant tool-call message to the
\* outbound list and to the session, then enter the dispatch loop
ModelCallTools ==
    /\ pc = "call"
    /\ \E response \in GatewayOutcomes(free) :
         LET ex == extract_response(WithIds(response, nextId))
         IN  /\ response.kind = "reply"
             /\ ex.kind = "ok"
             /\ ex.tool_calls # <<>>
             /\ run_text' = ex.text
             /\ GatewayCalled(response)
             /\ messages' = Append(messages, ToolCallMsg(response.content, ex.tool_calls))
             /\ stored' = add_tool_call(stored, ToolCallMsg(response.content, ex.tool_calls))
             /\ tool_calls' = ex.tool_calls
    /\ tcIdx' = 1
    /\ toolRounds' = toolRounds + 1
    /\ pc' = "tools"
    /\ UNCHANGED <<incomplete_todos_prompted, todos, final_text, raised, summCalls,
                   dispatched, doneSeen>>
    /\ UNCHANGED <<user_message, runStart>>
    /\ _save
    /\ UNCHANGED <<drive, lastOp>>
    /\ UNCHANGED <<ccVars, ctxVars, auxVars>>

\* one iteration of `for tc in tool_calls` whose _execute_tool call raises
DispatchRaises ==
    /\ pc = "tools"
    /\ _execute_tool(tool_calls[tcIdx]).kind = "raise"
    /\ dispatched' = dispatched + 1
    /\ todos' = TodosAfter(tool_calls[tcIdx], todos)
    /\ pc' = "raised"
    /\ raised' = "tool"
    /\ UNCHANGED <<stored, messages, round, incomplete_todos_prompted, tool_calls,
                   tcIdx, final_text, sent, sentTools, gwCalls, summCalls,
                   toolRounds, doneSeen, nextId, free>>
    /\ UNCHANGED <<user_message, runStart, run_text>>
    /\ UNCHANGED storeVars
    /\ UNCHANGED <<ccVars, ctxVars, auxVars>>

\* a dispatch loop that starts the next call before the result of the one in
\* turn is appended
DispatchContinue_two_at_once ==
    /\ pc = "tools"
    /\ LET tc == tool_calls[tcIdx]
           out == _execute_tool(tc)
       IN  /\ out.kind = "str"
           /\ _extract_done_message(tc.name, out.val) = NoneText
           /\ messages' = Append(messages, ToolResultMsg(tc.id, tc.name, out.val))
           /\ stored' = add_tool_result(stored, tc.id, tc.name, out.val)
           /\ todos' = TodosAfter(tc, todos)
    /\ dispatched' = IF tcIdx < Len(tool_calls) THEN dispatched + 2 ELSE dispatched + 1
    /\ IF tcIdx < Len(tool_calls)
       THEN /\ tcIdx' = tcIdx + 1
            /\ pc' = "tools"
       ELSE /\ tcIdx' = 0
            /\ pc' = NextPc(round)
    /\ UNCHANGED <<round, incomplete_todos_prompted, tool_calls, final_text, raised,
                   sent, sentTools, gwCalls, summCalls, toolRounds, doneSeen,
                   nextId, free>>
    /\ UNCHANGED <<user_message, runStart, run_text>>
    /\ _save
    /\ UNCHANGED <<drive, lastOp>>
    /\ UNCHANGED <<ccVars, ctxVars, auxVars>>

\* one iteration of `for tc in tool_calls`: dispatch, append the result to
\* the outbound list and to the session, and go on with the next call
DispatchContinue ==
    /\ pc = "tools"
    /\ LET tc == tool_calls[tcIdx]
           out == _execute_tool(tc)
       IN  /\ out.kind = "str"
           /\ _extract_done_message(tc.name, out.val) = NoneText
           /\ messages' = Append(messages, ToolResultMsg(tc.id, tc.name, out.val))
           /\ stored' = add_tool_result(stored, tc.id, tc.name, out.val)
           /\ todos' = TodosAfter(tc, todos)
    /\ dispatched' = dispatched + 1
    /\ IF tcIdx < Len(tool_calls)
       THEN /\ tcIdx' = tcIdx + 1
            /\ pc' = "tools"
       ELSE /\ tcIdx' = 0
            /\ pc' = NextPc(round)
    /\ UNCHANGED <<round, incomplete_todos_prompted, tool_calls, final_text, raised,
                   sent, sentTools, gwCalls, summCalls, toolRounds, doneSeen,
                   nextId, free>>
    /\ UNCHANGED <<user_message, runStart, run_text>>
    /\ _save
    /\ UNCHANGED <<drive, lastOp>>
    /\ UNCHANGED <<ccVars, ctxVars, auxVars>>

\* one iteration of `for tc in tool_calls` that ends the run: the done tool
\* returned the sentinel, so the text after it is persisted and returned
DispatchDone ==
    /\ pc = "tools"
    /\ LET tc == tool_calls[tcIdx]
           out == _execute_tool(tc)
           done_text == _extract_done_message(tc.name, out.val)
       IN  /\ out.kind = "str"
           /\ done_text # NoneText
           /\ messages' = Append(messages, ToolResultMsg(tc.id, tc.name, out.val))
           /\ stored' = add_message(add_tool_result(stored, tc.id, tc.name, out.val),
                                    "assistant", done_text)
           /\ final_text' = done_text
           /\ todos' = TodosAfter(tc, todos)
    /\ dispatched' = dispatched + 1
    /\ doneSeen' = TRUE
    /\ pc' = "returned"
    /\ UNCHANGED <<round, incomplete_todos_prompted, tool_calls, tcIdx, raised, sent,
                   sentTools, gwCalls, summCalls, toolRounds, nextId, free>>
    /\ UNCHANGED <<user_message, runStart, run_text>>
    /\ _save
    /\ UNCHANGED <<drive, lastOp>>
    /\ UNCHANGED <<ccVars, ctxVars, auxVars>>

\* after the loop: one tool-disabled call on messages + summary prompt, then
\* persist and return _summarize_max_iterations' text
Summarize ==
    LET \* what the tool-disabled summarization call can come back with
        SummaryOutcomes ==
            { GatewayFailure, Reply(NoneText, <<>>), Reply(<<Blank>>, <<>>),
              Reply(<<Blank, "s", Blank>>, <<>>) }
    IN
    /\ pc = "summ"
    /\ \E outcome \in SummaryOutcomes :
         LET res == _summarize_max_iterations(outcome)
         IN  IF res.kind = "raise"
             THEN /\ pc' = "raised"
                  /\ raised' = "gateway"
                  /\ UNCHANGED <<stored, final_text, pending_sync>>
             ELSE /\ pc' = "returned"
                  /\ final_text' = res.val
                  /\ stored' = add_message(stored, "assistant", res.val)
                  /\ _save
                  /\ UNCHANGED raised
    /\ summCalls' = summCalls + 1
    /\ sent' = Append(messages, Msg("user", MAX_ITERATIONS_SUMMARY_PROMPT))
    /\ sentTools' = FALSE
    /\ UNCHANGED <<messages, round, incomplete_todos_prompted, tool_calls, tcIdx,
                   todos, gwCalls, toolRounds, dispatched, doneSeen, nextId, free>>
    /\ UNCHANGED <<user_message, runStart, run_text>>
    /\ UNCHANGED <<drive, lastOp>>
    /\ UNCHANGED <<ccVars, ctxVars, auxVars>>

Next ==
    \/ Start
    \/ ModelCallRaises
    \/ ModelCallUnparsable
    \/ ModelCallNudge
    \/ ModelCallFinal
    \/ ModelCallTools
    \/ DispatchRaises
    \/ DispatchContinue
    \/ DispatchDone
    \/ Summarize

Spec == Init /\ [][Next]_vars

SpecHistory == InitHistory /\ [][Next]_vars

SpecStore == InitStore /\ [][Next]_vars

\* a run whose tools may never complete
InitHang ==
    runInit(ShortHistories) /\ ccIdle /\ storeIdle("up") /\ ctxIdle /\ auxIdle("none") /\ tool_env = "stalling"

\* the event loop keeps running whatever can run
SpecHang == InitHang /\ [][Next]_vars /\ WF_vars(Next)

-----------------------------------------------------------------------------
(* Session: its public operations, applied by any caller in any order      *)

\* the state of Agent.run() other than the Conversation
runRest == <<pc, messages, round, incomplete_todos_prompted, tool_calls, tcIdx,
             todos, final_text, raised, sent, sentTools, gwCalls, summCalls,
             toolRounds, dispatched, doneSeen, nextId, free, user_message,
             runStart, run_text>>

\* a Session constructed for an identity without a stored file
InitSession ==
    /\ pc = "idle"
    /\ stored = <<>>
    /\ messages = <<>>
    /\ round = 0
    /\ incomplete_todos_prompted = FALSE
    /\ tool_calls = <<>>
    /\ tcIdx = 0
    /\ todos = <<>>
    /\ final_text = NoneText
    /\ raised = "none"
    /\ sent = <<>>
    /\ sentTools = FALSE
    /\ gwCalls = 0
    /\ summCalls = 0
    /\ toolRounds = 0
    /\ dispatched = 0
    /\ doneSeen = FALSE
    /\ nextId = 1
    /\ free = 0
    /\ user_message = NoneText
    /\ runStart = 0
    /\ run_text = NoneText
    /\ ccIdle
    /\ storeIdle("up")
    /\ ctxIdle
    /\ auxIdle("none")
    /\ tool_env = "prompt"

SessAddMessage ==
    /\ Len(stored) < MaxSessionLen
    /\ \E role \in {"user", "assistant"} : stored' = add_message(stored, role, <<"u">>)
    /\ _save
    /\ lastOp' = "add_message"
    /\ UNCHANGED <<runRest, ccVars, ctxVars, auxVars, drive>>

SessAddToolCall ==
    /\ Len(stored) < MaxSessionLen
    /\ stored' = add_tool_call(stored, ToolCallMsg(NoneText, <<[id |-> 1, name |-> "web_search"]>>))
    /\ _save
    /\ lastOp' = "add_tool_call"
    /\ UNCHANGED <<runRest, ccVars, ctxVars, auxVars, drive>>

SessAddToolResult ==
    /\ Len(stored) < MaxSessionLen
    /\ stored' = add_tool_result(stored, 1, "web_search", <<"r">>)
    /\ _save
    /\ lastOp' = "add_tool_result"
    /\ UNCHANGED <<runRest, ccVars, ctxVars, auxVars, drive>>

\* get_messages and get_messages_since return slices, which are new lists
SessRead ==
    /\ \E op \in {"get_messages", "get_messages_since"} : lastOp' = op
    /\ \E start \in 0..1 :
         /\ Len(get_messages(stored)) <= Len(stored)
         /\ Len(get_messages_since(stored, start)) <= Len(stored)
    /\ UNCHANGED <<stored, runRest, ccVars, ctxVars, auxVars, drive, pending_sync>>

SessReplaceMessages ==
    LET \* lists a caller passes to replace_messages
        ReplaceArgs(msgs) ==
            { <<>>, <<Msg("user", <<"u">>)>> } \cup (IF msgs = <<>> THEN {} ELSE { Tail(msgs) })
    IN
    /\ \E new \in ReplaceArgs(stored) : stored' = replace_messages(stored, new)
    /\ _save
    /\ lastOp' = "replace_messages"
    /\ UNCHANGED <<runRest, ccVars, ctxVars, auxVars, drive>>

SessClear ==
    /\ stored' = clear(stored)
    /\ _save
    /\ lastOp' = "clear"
    /\ UNCHANGED <<runRest, ccVars, ctxVars, auxVars, drive>>

NextSession ==
    \/ SessAddMessage
    \/ SessAddToolCall
    \/ SessAddToolResult
    \/ SessRead
    \/ SessReplaceMessages
    \/ SessClear

SpecSession == InitSession /\ [][NextSession]_vars

-----------------------------------------------------------------------------
(* chat_completion(): one call, from the first attempt to return or raise  *)

runIdle ==
    /\ pc = "idle"
    /\ stored = <<>>
    /\ messages = <<>>
    /\ round = 0
    /\ incomplete_todos_prompted = FALSE
    /\ tool_calls = <<>>
    /\ tcIdx = 0
    /\ todos = <<>>
    /\ final_text = NoneText
    /\ raised = "none"
    /\ sent = <<>>
    /\ sentTools = FALSE
    /\ gwCalls = 0
    /\ summCalls = 0
    /\ toolRounds = 0
    /\ dispatched = 0
    /\ doneSeen = FALSE
    /\ nextId = 1
    /\ free = 0
    /\ user_message = NoneText
    /\ runStart = 0
    /\ run_text = NoneText

\* chat_completion has read its configuration and enters the loop
InitRetry ==
    LET \* configured llm.retry_base_delay values, in milliseconds
        BaseDelays == {1000, 8000}
    IN
    /\ runIdle
    /\ storeIdle("up")
    /\ ctxIdle
    /\ auxIdle("none")
    /\ tool_env = "prompt"
    /\ cc_pc = "try"
    /\ max_retries \in (-1)..MaxRetriesCfg
    /\ base_delay \in BaseDelays
    /\ attempt = 0
    /\ backendCalls = 0
    /\ sleeps = <<>>
    /\ errors = <<>>
    /\ last_err = NoError
    /\ cc_result = "none"

\* range(max_retries + 1) is empty: the guard after the loop raises
RangeEmpty ==
    /\ cc_pc = "try"
    /\ attempt > max_retries
    /\ cc_pc' = "raised"
    /\ cc_result' = IF last_err # NoError THEN last_err.type ELSE "RuntimeError"
    /\ UNCHANGED <<max_retries, base_delay, attempt, backendCalls, sleeps, errors, last_err>>
    /\ UNCHANGED <<runVars, storeVars, ctxVars, auxVars>>

\* litellm.acompletion returns: chat_completion returns the response
BackendReturns ==
    /\ cc_pc = "try"
    /\ attempt <= max_retries
    /\ backendCalls' = backendCalls + 1
    /\ cc_pc' = "returned"
    /\ cc_result' = "response"
    /\ UNCHANGED <<max_retries, base_delay, attempt, sleeps, errors, last_err>>
    /\ UNCHANGED <<runVars, storeVars, ctxVars, auxVars>>

\* litellm.acompletion raises and the handler re-raises
BackendFailsRaise ==
    /\ cc_pc = "try"
    /\ attempt <= max_retries
    /\ \E exc \in BackendErrors :
         /\ GiveUp(attempt, max_retries, exc)
         /\ errors' = Append(errors, exc)
         /\ last_err' = exc
         /\ cc_result' = exc.type
    /\ backendCalls' = backendCalls + 1
    /\ cc_pc' = "raised"
    /\ UNCHANGED <<max_retries, base_delay, attempt, sleeps>>
    /\ UNCHANGED <<runVars, storeVars, ctxVars, auxVars>>

\* litellm.acompletion raises and the handler goes to sleep before a retry
BackendFailsSleep ==
    LET \* the ends of random.uniform(0, backoff * 0.1)
        Jitters(backoff) == {0, backoff \div 10}
    IN
    /\ cc_pc = "try"
    /\ attempt <= max_retries
    /\ \E exc \in BackendErrors :
         /\ ~GiveUp(attempt, max_retries, exc)
         /\ errors' = Append(errors, exc)
         /\ last_err' = exc
    /\ \E jitter \in Jitters(Backoff(base_delay, attempt)) :
         sleeps' = Append(sleeps, [backoff |-> Backoff(base_delay, attempt),
                                   jitter |-> jitter])
    /\ backendCalls' = backendCalls + 1
    /\ cc_pc' = "sleeping"
    /\ UNCHANGED <<max_retries, base_delay, attempt, cc_result>>
    /\ UNCHANGED <<runVars, storeVars, ctxVars, auxVars>>

\* asyncio.sleep returns: the loop takes the next attempt
Wake ==
    /\ cc_pc = "sleeping"
    /\ attempt' = attempt + 1
    /\ cc_pc' = "try"
    /\ UNCHANGED <<max_retries, base_delay, backendCalls, sleeps, errors, last_err, cc_result>>
    /\ UNCHANGED <<runVars, storeVars, ctxVars, auxVars>>

NextRetry ==
    \/ RangeEmpty
    \/ BackendReturns
    \/ BackendFailsRaise
    \/ BackendFailsSleep
    \/ Wake

SpecRetry == InitRetry /\ [][NextRetry]_vars

-----------------------------------------------------------------------------
(* Call chains: top-level runs, subagents and nested cron runs             *)

\* no chat_completion, and no run of the single-run model, is in progress
InitCtx == runIdle /\ ccIdle /\ storeIdle("up") /\ ctxIdle /\ auxIdle("none") /\ tool_env = "prompt"

\* a depth counter shared by all call chains
ReadDepth_shared(c) ==
    CHOOSE d \in { depth_ctx[x] : x \in Chains } : \A x \in Chains : depth_ctx[x] <= d

\* _SUBAGENT_DEPTH_CTX.get() in call chain c
ReadDepth(c) == depth_ctx[c]

\* a depth test that lets one more level through
DepthExceeded_two_levels(depth) == depth >= 2

\* `if depth >= 1: return "Error: subagent nesting depth exceeded."`
DepthExceeded(depth) == depth >= 1

\* call chain c takes one of its steps
Step(c) ==
    /\ ops[c] > 0
    /\ ops' = [ops EXCEPT ![c] = ops[c] - 1]

\* Agent.run() begins in call chain c for the Session `id`: bind the active
\* session to it and persist the user message
Enter(c, id, kind, token) ==
    LET \* one Agent.run() in progress: the identity of its Session, what started it
        \* (top, sub, cron), the depth token spawn_subagent holds for it, and its
        \* incomplete_todos_prompted flag
        Frame(i, k, t) == [id |-> i, kind |-> k, token |-> t, prompted |-> FALSE]
    IN
    /\ session_ctx' = [session_ctx EXCEPT ![c] = _set_active_session_id(id)]
    /\ files' = Put(files, id, Get(files, id, 0) + 1)
    /\ stack' = [stack EXCEPT ![c] = Append(stack[c], Frame(id, kind, token))]

\* a spawn_subagent without the finally block
Leave_no_reset(c) ==
    /\ stack' = [stack EXCEPT ![c] = Pop(stack[c])]
    /\ depth_ctx' = depth_ctx

\* the innermost run of call chain c is over: control is back in its caller;
\* spawn_subagent's finally block resets the depth counter to its token
Leave(c) ==
    /\ stack' = [stack EXCEPT ![c] = Pop(stack[c])]
    /\ depth_ctx' = [depth_ctx EXCEPT ![c] =
                        IF Top(c).kind = "sub" THEN Top(c).token ELSE depth_ctx[c]]

\* a caller (web UI, Telegram handler) starts a top-level run in call chain c
CtxRun(c) ==
    /\ stack[c] = <<>>
    /\ Step(c)
    /\ Enter(c, Identity(c), "top", 0)
    /\ log' = [log EXCEPT ![c] =
                  LogEntry("run", Identity(c), _set_active_session_id(Identity(c)),
                           "started", ReadDepth(c), Get(files, Identity(c), 0))]
    /\ UNCHANGED <<depth_ctx, todos_by_session, now>>
    /\ UNCHANGED <<runVars, ccVars, storeVars, auxVars>>

\* the innermost run dispatches todo_write(items)
CtxTodoWrite(c) ==
    LET \* todo_write arguments
        TodoWrites == { << <<"[ ]", Blank, "a">> >>, << <<"[x]", Blank, "a">> >> }
    IN
    /\ stack[c] # <<>>
    /\ Step(c)
    /\ \E items \in TodoWrites :
         todos_by_session' = Put(todos_by_session, session_ctx[c], ParseItems(items))
    /\ log' = [log EXCEPT ![c] =
                  LogEntry("todo_write", Top(c).id, session_ctx[c], "ok", ReadDepth(c), 0)]
    /\ UNCHANGED <<session_ctx, depth_ctx, files, stack, now>>
    /\ UNCHANGED <<runVars, ccVars, storeVars, auxVars>>

\* the innermost run dispatches todo_read()
CtxTodoRead(c) ==
    /\ stack[c] # <<>>
    /\ Step(c)
    /\ log' = [log EXCEPT ![c] =
                  LogEntry("todo_read", Top(c).id, session_ctx[c], "ok", ReadDepth(c), 0)]
    /\ UNCHANGED <<session_ctx, depth_ctx, todos_by_session, files, stack, now>>
    /\ UNCHANGED <<runVars, ccVars, storeVars, auxVars>>

\* the innermost run gets a reply without tool calls: it nudges once when the
\* active session has incomplete todos, else persists the text and returns
CtxReply(c) ==
    /\ stack[c] # <<>>
    /\ Step(c)
    /\ IF NudgeDue(Top(c).prompted, Get(todos_by_session, session_ctx[c], <<>>))
       THEN /\ stack' = [stack EXCEPT ![c] =
                            Append(Pop(stack[c]), [Top(c) EXCEPT !.prompted = TRUE])]
            /\ log' = [log EXCEPT ![c] =
                          LogEntry("reply", Top(c).id, session_ctx[c], "nudged", ReadDepth(c), 0)]
            /\ UNCHANGED <<depth_ctx, files>>
       ELSE /\ Leave(c)
            /\ files' = Put(files, Top(c).id, Get(files, Top(c).id, 0) + 1)
            /\ log' = [log EXCEPT ![c] =
                          LogEntry("reply", Top(c).id, session_ctx[c], "returned", ReadDepth(c), 0)]
    /\ UNCHANGED <<session_ctx, todos_by_session, now>>
    /\ UNCHANGED <<runVars, ccVars, storeVars, auxVars>>

\* the gateway fails in the innermost run: the exception leaves that run
CtxRaise(c) ==
    /\ stack[c] # <<>>
    /\ Step(c)
    /\ Leave(c)
    /\ log' = [log EXCEPT ![c] =
                  LogEntry("raise", Top(c).id, session_ctx[c], "raised", ReadDepth(c), 0)]
    /\ UNCHANGED <<session_ctx, todos_by_session, files, now>>
    /\ UNCHANGED <<runVars, ccVars, storeVars, auxVars>>

\* the innermost run dispatches spawn_subagent(task): rejected for depth or
\* for a blank task, else a child Session and Agent are constructed under the
\* raised depth counter and the child run begins
CtxSpawn(c) ==
    LET \* spawn_subagent task arguments
        Tasks == { <<"t">>, <<Blank>> }
    IN
    /\ stack[c] # <<>>
    /\ Step(c)
    /\ \E task \in Tasks :
         LET depth == ReadDepth(c)
             child == child_id(session_ctx[c], now)
         IN  IF DepthExceeded(depth)
             THEN /\ log' = [log EXCEPT ![c] =
                                LogEntry("spawn", Top(c).id, session_ctx[c], "rejected", depth, 0)]
                  /\ UNCHANGED <<session_ctx, depth_ctx, files, stack>>
             ELSE IF Strip(task) = <<>>
             THEN /\ log' = [log EXCEPT ![c] =
                                LogEntry("spawn", Top(c).id, session_ctx[c], "no task", depth, 0)]
                  /\ UNCHANGED <<session_ctx, depth_ctx, files, stack>>
             ELSE /\ depth_ctx' = [depth_ctx EXCEPT ![c] = depth + 1]
                  /\ Enter(c, child, "sub", depth)
                  /\ log' = [log EXCEPT ![c] =
                                LogEntry("spawn", child, session_ctx[c], "started", depth,
                                         Get(files, child, 0))]
    /\ UNCHANGED <<todos_by_session, now>>
    /\ UNCHANGED <<runVars, ccVars, storeVars, auxVars>>

\* the innermost run dispatches cron_run_due(): run_due_tasks constructs the
\* Session of a due task and runs an Agent on it in the same call chain
CtxCronRunDue(c) ==
    LET \* session ids of the due cron tasks cron_run_due finds
        CronSessions == { <<"A">> }
    IN
    /\ stack[c] # <<>>
    /\ Step(c)
    /\ \E sid \in CronSessions :
         /\ Enter(c, sid, "cron", ReadDepth(c))
         /\ log' = [log EXCEPT ![c] =
                       LogEntry("cron_run_due", sid, session_ctx[c], "started", ReadDepth(c),
                                Get(files, sid, 0))]
    /\ UNCHANGED <<depth_ctx, todos_by_session, now>>
    /\ UNCHANGED <<runVars, ccVars, storeVars, auxVars>>

\* the innermost run dispatches cron_create(session_id=...): a blocking tool,
\* so _execute_tool hands it to the loop's default executor; the worker thread
\* has a context of its own in which _SESSION_ID_CTX was never set, so
\* _active_session_id() yields the variable's default there
CtxCronCreate(c) ==
    LET \* session_id arguments: left empty, or naming a conversation
        SessionArgs == { <<>>, <<"B">> }
    IN
    LET \* _SESSION_ID_CTX.get() in a thread of the executor
        ExecutorSession == <<"default">>
    IN
    /\ stack[c] # <<>>
    /\ Step(c)
    /\ \E session_id \in SessionArgs :
         LET target_session == OrElse(Strip(session_id), ExecutorSession)
         IN  /\ cron_file' = Append(cron_file,
                                   [id |-> Len(cron_file) + 1, due |-> FALSE,
                                    session_id |-> target_session])
             /\ log' = [log EXCEPT ![c] =
                           LogEntry("cron_create", Top(c).id, target_session,
                                    IF Strip(session_id) = <<>> THEN "defaulted" ELSE "given",
                                    ReadDepth(c), 0)]
    /\ UNCHANGED <<session_ctx, depth_ctx, todos_by_session, files, stack, now>>
    /\ UNCHANGED <<tool_env, discover_pc, tool_modules, registry, tool_schemas,
                   tg_cfg, tg_update, tg_out>>
    /\ UNCHANGED <<disk_log, mem_log, appended, append_count>>
    /\ UNCHANGED <<cron_stack, cron_ids, cron_made, cron_budget>>
    /\ UNCHANGED <<runVars, ccVars, storeVars>>

\* a second passes
CtxTick ==
    /\ now < MaxClock
    /\ now' = now + 1
    /\ UNCHANGED <<session_ctx, depth_ctx, todos_by_session, files, stack, ops, log>>
    /\ UNCHANGED <<runVars, ccVars, storeVars, auxVars>>

NextCtx ==
    \/ \E c \in Chains :
         \/ CtxRun(c)
         \/ CtxTodoWrite(c)
         \/ CtxTodoRead(c)
         \/ CtxReply(c)
         \/ CtxRaise(c)
         \/ CtxSpawn(c)
         \/ CtxCronRunDue(c)
         \/ CtxCronCreate(c)
    \/ CtxTick

SpecCtx == InitCtx /\ [][NextCtx]_vars

-----------------------------------------------------------------------------
(* agent.py: construction of the tool registry at import time              *)

ToolNames ==
    LET \* function names the tool modules may define
        NamePool == <<"a", "_p", "b", "c", "d">>
    IN  { NamePool[i] : i \in 1..MaxToolNames }

\* the function `name` defined in module number m
Callable(m, name) == <<m, name>>

\* name.startswith("_")
IsPrivate(name) == name \in {"_p"}

\* _discover_tools: for every module in turn, registry[name] = obj for each
\* public function of the module; an entry of an earlier module under the same
\* name is overwritten
RECURSIVE _discover_tools(_, _, _)
_discover_tools(mods, m, reg) ==
    IF m > Len(mods) THEN reg
    ELSE _discover_tools(mods, m + 1,
             [n \in DOMAIN reg \cup { x \in mods[m] : ~IsPrivate(x) } |->
                 IF n \in mods[m] THEN Callable(m, n) ELSE reg[n]])

\* build_tool_schemas(list(_TOOL_REGISTRY.values())): one schema per entry
build_tool_schemas(reg) == { reg[n] : n \in DOMAIN reg }

\* tools.py and gworkspace.py, each with some of the names
InitRegistry ==
    /\ runIdle
    /\ ccIdle
    /\ storeIdle("up")
    /\ ctxIdle
    /\ tool_env = "prompt"
    /\ auxIdle("registry")
    /\ discover_pc = "start"
    /\ tool_modules \in [1..2 -> SUBSET ToolNames]
    /\ registry = NoEntries
    /\ tool_schemas = {}

\* the module-level statements that build _TOOL_REGISTRY and _TOOL_SCHEMAS
DiscoverTools ==
    /\ discover_pc = "start"
    /\ registry' = _discover_tools(tool_modules, 1, NoEntries)
    /\ tool_schemas' = build_tool_schemas(_discover_tools(tool_modules, 1, NoEntries))
    /\ discover_pc' = "built"
    /\ UNCHANGED <<tool_modules, tool_env, tg_cfg, tg_update, tg_out>>
    /\ UNCHANGED <<disk_log, mem_log, appended, append_count>>
    /\ UNCHANGED <<cron_file, cron_stack, cron_ids, cron_made, cron_budget>>
    /\ UNCHANGED <<runVars, ccVars, storeVars, ctxVars>>

NextRegistry == DiscoverTools

SpecRegistry == InitRegistry /\ [][NextRegistry]_vars

-----------------------------------------------------------------------------
(* telegram_bot.py: the allow-list check and the message handler           *)
(* Strings are sequences of characters here.                               *)

OneString(chars) == [kind |-> "str", items |-> <<chars>>]
Range(seq) == { seq[i] : i \in 1..Len(seq) }

\* _as_list: None -> [], a list -> its stripped non-blank members, a string ->
\* its comma-separated stripped non-blank parts, or itself when it has no comma
_as_list(value) ==
    LET \* text.split(",")
        RECURSIVE Split(_, _)
        Split(t, sep) ==
            IF \A i \in 1..Len(t) : t[i] # sep THEN <<t>>
            ELSE LET i == CHOOSE j \in 1..Len(t) : t[j] = sep /\ \A k \in 1..(j - 1) : t[k] # sep
                 IN  <<SubSeq(t, 1, i - 1)>> \o Split(SubSeq(t, i + 1, Len(t)), sep)
    IN
    LET \* [x.strip() for x in items if x.strip()]
        StrippedNonBlank(items) ==
            LET NonEmpty(t) == t # <<>>
            IN  SelectSeq([i \in 1..Len(items) |-> Strip(items[i])], NonEmpty)
    IN
    CASE value.kind = "none" -> <<>>
      [] value.kind = "list" -> StrippedNonBlank(value.items)
      [] OTHER ->
            LET text == Strip(value.items[1])
            IN  IF text = <<>> THEN <<>>
                ELSE IF "," \in Range(text) THEN StrippedNonBlank(Split(text, ","))
                ELSE <<text>>

\* _normalize_username: str(value).strip().lstrip("@").lower()
_normalize_username(value) ==
    LET \* str.lstrip("@")
        RECURSIVE LStripAt(_)
        LStripAt(t) == IF t # <<>> /\ Head(t) = "@" THEN LStripAt(Tail(t)) ELSE t
    IN
    LET LowerAll(t) ==
            LET \* str.lower()
                LowerChar(ch) == IF ch = "A" THEN "a" ELSE IF ch = "B" THEN "b" ELSE ch
            IN  [i \in 1..Len(t) |-> LowerChar(t[i])]
    IN  LowerAll(LStripAt(Strip(value)))

\* _extract_id_values: every number found in every member of _as_list(value)
_extract_id_values(value) ==
    LET \* _ID_RE.findall(token) for the pattern -?\d+
        RECURSIVE _ID_RE_findall(_)
        _ID_RE_findall(t) ==
            LET \* the longest run of digits at the start of t
                RECURSIVE DigitRun(_)
                DigitRun(d) ==
                    LET Digits == {"1", "2"}
                    IN  IF d # <<>> /\ Head(d) \in Digits THEN <<Head(d)>> \o DigitRun(Tail(d)) ELSE <<>>
            IN  IF t = <<>> THEN {}
            ELSE IF Head(t) = "-" /\ DigitRun(Tail(t)) # <<>>
            THEN {<<"-">> \o DigitRun(Tail(t))}
                     \cup _ID_RE_findall(SubSeq(t, 2 + Len(DigitRun(Tail(t))), Len(t)))
            ELSE IF DigitRun(t) # <<>>
            THEN {DigitRun(t)} \cup _ID_RE_findall(SubSeq(t, 1 + Len(DigitRun(t)), Len(t)))
            ELSE _ID_RE_findall(Tail(t))
    IN  UNION { _ID_RE_findall(tok) : tok \in Range(_as_list(value)) }

UsernameKeys == {"allowed_users", "allowed_user", "owner_username"}
IdKeys == {"allowed_user_ids", "allowed_user_id", "owner_user_id", "user_id"}

\* the set allowed_users built by _is_allowed
allowed_users(tg) ==
    { _normalize_username(u) : u \in UNION { Range(_as_list(tg[k])) : k \in UsernameKeys } }
        \ {<<>>}

\* the set allowed_ids built by _is_allowed
allowed_ids(tg) == UNION { _extract_id_values(tg[k]) : k \in IdKeys }

\* an allow-list check that serves everybody when nothing is configured
_is_allowed_open_when_empty(tg, user) ==
    IF allowed_users(tg) = {} /\ allowed_ids(tg) = {} THEN TRUE
    ELSE \/ _normalize_username(OrElse(user.username, <<>>)) \in allowed_users(tg)
         \/ Strip(user.id) \in allowed_ids(tg)

\* _is_allowed
_is_allowed(tg, user) ==
    IF allowed_users(tg) = {} /\ allowed_ids(tg) = {} THEN FALSE
    ELSE \/ _normalize_username(OrElse(user.username, <<>>)) \in allowed_users(tg)
         \/ Strip(user.id) \in allowed_ids(tg)

\* incoming text messages: sender username (or None), sender id, text (or None)
Updates ==
    [ username : {NoneText, <<"a">>, <<"A">>, <<"b">>, <<"c">>},
      id : {<<"1">>, <<"2">>, <<"1", "2">>},
      text : {NoneText, <<Blank>>, <<"h", "i">>} ]

NothingDone == [handled |-> FALSE, replies |-> <<>>, sessions |-> {}, runs |-> <<>>]

InitTelegram ==
    LET StringList(items) == [kind |-> "list", items |-> items]
    IN
    LET \* a value of the [telegram] secrets table: absent, one string, or a list of
        \* strings
        Absent == [kind |-> "none", items |-> <<>>]
    IN
    LET Secrets ==
            LET \* which username key and which id key the table sets
                KeyPairs ==
                    { <<"allowed_users", "allowed_user_ids">>,
                      <<"allowed_user", "allowed_user_id">>,
                      <<"owner_username", "owner_user_id">>,
                      <<"allowed_users", "user_id">> }
            IN
            LET \* values the id keys may hold
                IdValues ==
                    { Absent,
                      OneString(<<"1">>),
                      OneString(<<"[", "1", "2", ",", " ", "2", "]">>),
                      OneString(<<"-", "1">>),
                      OneString(<<" ">>),
                      StringList(<< <<"2">>, <<" ">> >>) }
            IN
            LET \* values the username keys may hold
                UserValues ==
                    { Absent,
                      OneString(<<"a">>),
                      OneString(<<" ", "@", "A", ",", "b", " ">>),
                      OneString(<<" ", ",", " ">>),
                      StringList(<< <<"@">>, <<" ">> >>),
                      StringList(<< <<"@", "@", "b">> >>) }
            IN
            { [k \in UsernameKeys \cup IdKeys |->
                  IF k = kp[1] THEN uv ELSE IF k = kp[2] THEN iv ELSE Absent] :
                kp \in KeyPairs, uv \in UserValues, iv \in IdValues }
    IN
    /\ runIdle
    /\ ccIdle
    /\ storeIdle("up")
    /\ ctxIdle
    /\ tool_env = "prompt"
    /\ auxIdle("telegram")
    /\ tg_cfg \in Secrets
    /\ tg_update \in Updates
    /\ tg_out = NothingDone

\* _handle_message: a sender who is not allowed gets the rejection and nothing
\* else happens; a blank text is dropped; otherwise Session("tg_<id>") and
\* Agent are created, agent.run(text) is awaited and its answer, or the apology
\* when it raised, is sent back
_handle_message ==
    /\ ~tg_out.handled
    /\ \E outcome \in {"returns", "raises"} :
          tg_out' =
              IF ~_is_allowed(tg_cfg, tg_update)
              THEN [handled |-> TRUE, replies |-> <<"Unauthorized.">>,
                    sessions |-> {}, runs |-> <<>>]
              ELSE IF Strip(OrElse(tg_update.text, <<>>)) = <<>>
              THEN [handled |-> TRUE, replies |-> <<>>, sessions |-> {}, runs |-> <<>>]
              ELSE [handled |-> TRUE,
                    replies |-> IF outcome = "returns" THEN <<"response">>
                                ELSE <<"Sorry, I encountered an error">>,
                    sessions |-> {<<"tg_">> \o tg_update.id},
                    runs |-> <<[session |-> <<"tg_">> \o tg_update.id,
                                text |-> tg_update.text]>>]
    /\ UNCHANGED <<tg_cfg, tg_update>>
    /\ UNCHANGED <<tool_env, discover_pc, tool_modules, registry, tool_schemas>>
    /\ UNCHANGED <<disk_log, mem_log, appended, append_count>>
    /\ UNCHANGED <<cron_file, cron_stack, cron_ids, cron_made, cron_budget>>
    /\ UNCHANGED <<runVars, ccVars, storeVars, ctxVars>>

\* the polling loop hands the next text message to the handler
TgNextUpdate ==
    /\ tg_out.handled
    /\ tg_update' \in Updates
    /\ tg_out' = NothingDone
    /\ UNCHANGED tg_cfg
    /\ UNCHANGED <<tool_env, discover_pc, tool_modules, registry, tool_schemas>>
    /\ UNCHANGED <<disk_log, mem_log, appended, append_count>>
    /\ UNCHANGED <<cron_file, cron_stack, cron_ids, cron_made, cron_budget>>
    /\ UNCHANGED <<runVars, ccVars, storeVars, ctxVars>>

NextTelegram ==
    \/ _handle_message
    \/ TgNextUpdate

SpecTelegram == InitTelegram /\ [][NextTelegram]_vars

-----------------------------------------------------------------------------
(* session.py: several Session instances of one conversation identity      *)

\* the Session of the run in progress and the Session that run_due_tasks (or
\* another request) constructs for the same identity
Instances == {1, 2}

NotBuilt == [built |-> FALSE, messages |-> <<>>]

InitInstances ==
    /\ runIdle
    /\ ccIdle
    /\ storeIdle("up")
    /\ ctxIdle
    /\ tool_env = "prompt"
    /\ auxIdle("instances")
    /\ disk_log = <<>>
    /\ mem_log = [i \in Instances |-> NotBuilt]
    /\ appended = <<>>
    /\ append_count = 0

\* Session(session_id): _load() reads the whole file into self._messages
InstConstruct(i) ==
    /\ ~mem_log[i].built
    /\ mem_log' = [mem_log EXCEPT ![i] = [built |-> TRUE, messages |-> disk_log]]
    /\ UNCHANGED <<disk_log, appended, append_count>>
    /\ UNCHANGED <<tool_env, discover_pc, tool_modules, registry, tool_schemas, tg_cfg, tg_update, tg_out>>
    /\ UNCHANGED <<cron_file, cron_stack, cron_ids, cron_made, cron_budget>>
    /\ UNCHANGED <<runVars, ccVars, storeVars, ctxVars>>

\* add_message: append to self._messages, then _save() writes all of
\* self._messages over the file
InstAddMessage(i) ==
    /\ mem_log[i].built
    /\ append_count < MaxAppends
    /\ append_count' = append_count + 1
    /\ mem_log' = [mem_log EXCEPT ![i].messages = Append(@, append_count + 1)]
    /\ disk_log' = Append(mem_log[i].messages, append_count + 1)
    /\ appended' = Append(appended, append_count + 1)
    /\ UNCHANGED <<tool_env, discover_pc, tool_modules, registry, tool_schemas, tg_cfg, tg_update, tg_out>>
    /\ UNCHANGED <<cron_file, cron_stack, cron_ids, cron_made, cron_budget>>
    /\ UNCHANGED <<runVars, ccVars, storeVars, ctxVars>>

\* clear: self._messages = [] and _save()
InstClear(i) ==
    /\ mem_log[i].built
    /\ mem_log' = [mem_log EXCEPT ![i].messages = <<>>]
    /\ disk_log' = <<>>
    /\ appended' = <<>>
    /\ UNCHANGED append_count
    /\ UNCHANGED <<tool_env, discover_pc, tool_modules, registry, tool_schemas, tg_cfg, tg_update, tg_out>>
    /\ UNCHANGED <<cron_file, cron_stack, cron_ids, cron_made, cron_budget>>
    /\ UNCHANGED <<runVars, ccVars, storeVars, ctxVars>>

\* the request or the cron task that held the instance is over
InstDiscard(i) ==
    /\ mem_log[i].built
    /\ mem_log' = [mem_log EXCEPT ![i] = NotBuilt]
    /\ UNCHANGED <<disk_log, appended, append_count>>
    /\ UNCHANGED <<tool_env, discover_pc, tool_modules, registry, tool_schemas, tg_cfg, tg_update, tg_out>>
    /\ UNCHANGED <<cron_file, cron_stack, cron_ids, cron_made, cron_budget>>
    /\ UNCHANGED <<runVars, ccVars, storeVars, ctxVars>>

NextInstances ==
    \E i \in Instances :
        \/ InstConstruct(i)
        \/ InstAddMessage(i)
        \/ InstClear(i)
        \/ InstDiscard(i)

SpecInstances == InitInstances /\ [][NextInstances]_vars

-----------------------------------------------------------------------------
(* cron_service.py: the task list and run_due_tasks; tools.py: cron tools  *)

\* a task of CRON_TASKS.json: its id and whether next_run_utc <= now
CronTask(id, due) == [id |-> id, due |-> due]

\* an Agent.run() in progress: started by a caller ("top"), by spawn_subagent
\* ("sub") or by run_due_tasks for a task ("cron")
RunFrame(kind, task) == [kind |-> kind, task |-> task, tasks |-> <<>>, due |-> <<>>, pos |-> 0]

CronTop == cron_stack[Len(cron_stack)]

TaskIds(tasks) == { tasks[i].id : i \in 1..Len(tasks) }

InRun == cron_stack # <<>> /\ CronTop.kind # "due"

InitCron ==
    /\ runIdle
    /\ ccIdle
    /\ storeIdle("up")
    /\ ctxIdle
    /\ tool_env = "prompt"
    /\ auxIdle("cron")
    /\ cron_file = <<>>
    /\ cron_stack = <<>>
    /\ cron_ids = 0
    /\ cron_made = {}
    /\ cron_budget = MaxCronRuns

\* a caller starts Agent.run()
CronStartRun ==
    /\ cron_stack = <<>>
    /\ cron_budget > 0
    /\ cron_budget' = cron_budget - 1
    /\ cron_stack' = <<RunFrame("top", 0)>>
    /\ UNCHANGED <<cron_file, cron_ids, cron_made>>
    /\ UNCHANGED <<tool_env, discover_pc, tool_modules, registry, tool_schemas, tg_cfg, tg_update, tg_out>>
    /\ UNCHANGED <<disk_log, mem_log, appended, append_count>>
    /\ UNCHANGED <<runVars, ccVars, storeVars, ctxVars>>

\* the run in progress dispatches cron_create: create_task loads the list,
\* appends the new task, due one interval from now, and saves
create_task ==
    /\ InRun
    /\ cron_ids < MaxCronTasks
    /\ cron_ids' = cron_ids + 1
    /\ cron_file' = Append(cron_file, CronTask(cron_ids + 1, FALSE))
    /\ cron_made' = cron_made \cup {cron_ids + 1}
    /\ UNCHANGED <<cron_stack, cron_budget>>
    /\ UNCHANGED <<tool_env, discover_pc, tool_modules, registry, tool_schemas, tg_cfg, tg_update, tg_out>>
    /\ UNCHANGED <<disk_log, mem_log, appended, append_count>>
    /\ UNCHANGED <<runVars, ccVars, storeVars, ctxVars>>

\* the run in progress dispatches cron_delete(id): delete_task loads the
\* list and saves it without the task, or returns False when it has none
delete_task ==
    /\ InRun
    /\ \E id \in 1..cron_ids :
         IF id \in TaskIds(cron_file)
         THEN /\ cron_file' = SelectSeq(cron_file, LAMBDA t : t.id # id)
              /\ cron_made' = cron_made \ {id}
         ELSE UNCHANGED <<cron_file, cron_made>>
    /\ UNCHANGED <<cron_stack, cron_ids, cron_budget>>
    /\ UNCHANGED <<tool_env, discover_pc, tool_modules, registry, tool_schemas, tg_cfg, tg_update, tg_out>>
    /\ UNCHANGED <<disk_log, mem_log, appended, append_count>>
    /\ UNCHANGED <<runVars, ccVars, storeVars, ctxVars>>

\* time passes and the next run of a task falls due
CronFallsDue ==
    /\ \E i \in 1..Len(cron_file) :
         /\ ~cron_file[i].due
         /\ cron_file' = [cron_file EXCEPT ![i].due = TRUE]
    /\ UNCHANGED <<cron_stack, cron_ids, cron_made, cron_budget>>
    /\ UNCHANGED <<tool_env, discover_pc, tool_modules, registry, tool_schemas, tg_cfg, tg_update, tg_out>>
    /\ UNCHANGED <<disk_log, mem_log, appended, append_count>>
    /\ UNCHANGED <<runVars, ccVars, storeVars, ctxVars>>

\* the run in progress dispatches cron_run_due(limit): run_due_tasks loads
\* the list and selects the due tasks; with none it returns, else it
\* constructs the Session and the Agent of the first and awaits its run()
cron_run_due ==
    LET \* a run_due_tasks invocation in progress: the list it loaded, the ids of its
        \* due tasks and which of them is executing
        DueFrame(tasks, due) == [kind |-> "due", task |-> 0, tasks |-> tasks, due |-> due, pos |-> 1]
    IN
    LET \* due = [t for t in tasks if enabled and next_run <= now][: max(1, limit)]
        DueIds(tasks, limit) ==
            LET IsDue(t) == t.due
            IN
            LET all == SelectSeq(tasks, IsDue)
                n   == IF Len(all) < limit THEN Len(all) ELSE limit
            IN  [i \in 1..n |-> all[i].id]
    IN
    /\ InRun
    /\ cron_budget > 0
    /\ \E limit \in {1, 3} :
         LET due == DueIds(cron_file, limit)
         IN  IF due = <<>>
             THEN UNCHANGED <<cron_stack, cron_budget>>
             ELSE /\ cron_stack' = cron_stack \o
                        <<DueFrame(cron_file, due), RunFrame("cron", due[1])>>
                  /\ cron_budget' = cron_budget - 1
    /\ UNCHANGED <<cron_file, cron_ids, cron_made>>
    /\ UNCHANGED <<tool_env, discover_pc, tool_modules, registry, tool_schemas, tg_cfg, tg_update, tg_out>>
    /\ UNCHANGED <<disk_log, mem_log, appended, append_count>>
    /\ UNCHANGED <<runVars, ccVars, storeVars, ctxVars>>

\* the run in progress dispatches spawn_subagent: rejected when a subagent
\* run is in progress, else the child run begins
spawn_subagent ==
    LET \* _SUBAGENT_DEPTH_CTX: raised by spawn_subagent for the time of the child run
        CronSubDepth ==
            Cardinality({ i \in 1..Len(cron_stack) : cron_stack[i].kind = "sub" })
    IN
    /\ InRun
    /\ cron_budget > 0
    /\ IF DepthExceeded(CronSubDepth)
       THEN UNCHANGED <<cron_stack, cron_budget>>
       ELSE /\ cron_stack' = Append(cron_stack, RunFrame("sub", 0))
            /\ cron_budget' = cron_budget - 1
    /\ UNCHANGED <<cron_file, cron_ids, cron_made>>
    /\ UNCHANGED <<tool_env, discover_pc, tool_modules, registry, tool_schemas, tg_cfg, tg_update, tg_out>>
    /\ UNCHANGED <<disk_log, mem_log, appended, append_count>>
    /\ UNCHANGED <<runVars, ccVars, storeVars, ctxVars>>

\* a run started by a caller or by spawn_subagent returns or raises
CronRunEnds ==
    /\ InRun
    /\ CronTop.kind \in {"top", "sub"}
    /\ cron_stack' = Pop(cron_stack)
    /\ UNCHANGED <<cron_file, cron_ids, cron_made, cron_budget>>
    /\ UNCHANGED <<tool_env, discover_pc, tool_modules, registry, tool_schemas, tg_cfg, tg_update, tg_out>>
    /\ UNCHANGED <<disk_log, mem_log, appended, append_count>>
    /\ UNCHANGED <<runVars, ccVars, storeVars, ctxVars>>

\* the run of a due task returns or raises: run_due_tasks reschedules the
\* task on its loaded list, then runs the next due task or, after the last,
\* saves the loaded list with the updates and returns
run_due_tasks ==
    LET \* task["last_run_utc"] and task["next_run_utc"] = now + interval, set on the
        \* dict of the loaded list
        Rescheduled(tasks, id) ==
            [i \in 1..Len(tasks) |-> IF tasks[i].id = id THEN CronTask(id, FALSE) ELSE tasks[i]]
    IN
    /\ InRun
    /\ CronTop.kind = "cron"
    /\ LET inv   == cron_stack[Len(cron_stack) - 1]
           tasks == Rescheduled(inv.tasks, inv.due[inv.pos])
           below == SubSeq(cron_stack, 1, Len(cron_stack) - 2)
       IN  IF inv.pos < Len(inv.due)
           THEN /\ cron_stack' = below \o
                      <<[inv EXCEPT !.tasks = tasks, !.pos = inv.pos + 1],
                        RunFrame("cron", inv.due[inv.pos + 1])>>
                /\ UNCHANGED cron_file
           ELSE /\ cron_stack' = below
                /\ cron_file' = tasks
    /\ UNCHANGED <<cron_ids, cron_made, cron_budget>>
    /\ UNCHANGED <<tool_env, discover_pc, tool_modules, registry, tool_schemas, tg_cfg, tg_update, tg_out>>
    /\ UNCHANGED <<disk_log, mem_log, appended, append_count>>
    /\ UNCHANGED <<runVars, ccVars, storeVars, ctxVars>>

NextCron ==
    \/ CronStartRun
    \/ create_task
    \/ delete_task
    \/ CronFallsDue
    \/ cron_run_due
    \/ spawn_subagent
    \/ CronRunEnds
    \/ run_due_tasks

SpecCron == InitCron /\ [][NextCron]_vars

-----------------------------------------------------------------------------
(* Properties of Agent.run()                                               *)

Terminal == pc \in {"returned", "raised"}

\* the messages this run appended to the Conversation
RunPart == IF runStart = 0 THEN <<>> ELSE SubSeq(stored, runStart, Len(stored))

IsToolCallMsg(m) == m.role = "assistant" /\ m.tool_calls # <<>>
IsToolResult(m) == m.role = "tool"

\* no message of msgs other than the one at position p is a result for id
OnlyResultAt(msgs, id, p) ==
    \A i \in 1..Len(msgs) : (msgs[i].role = "tool" /\ msgs[i].tool_call_id = id) => i = p

NoResultFor(msgs, id) ==
    \A i \in 1..Len(msgs) : ~(msgs[i].role = "tool" /\ msgs[i].tool_call_id = id)

\* the tool-call message at position k of msgs is followed by the results of
\* its first n calls, in request order, and no other message carries their ids
AnsweredUpTo(msgs, k, n) ==
    \A j \in 1..n :
        /\ k + j <= Len(msgs)
        /\ IsToolResult(msgs[k + j])
        /\ msgs[k + j].tool_call_id = msgs[k].tool_calls[j].id
        /\ msgs[k + j].name = msgs[k].tool_calls[j].name
        /\ OnlyResultAt(msgs, msgs[k].tool_calls[j].id, k + j)

\* every call of the tool-call message at position k has its result
Answered(msgs, k) == AnsweredUpTo(msgs, k, Len(msgs[k].tool_calls))

ToolCallPositions(msgs) == { k \in 1..Len(msgs) : IsToolCallMsg(msgs[k]) }

\* steps run() has taken: gateway calls, tool dispatches, and the start
Steps == gwCalls + summCalls + dispatched + (IF pc = "idle" THEN 0 ELSE 1)

\* C1: one run() makes at most 25 tool-enabled gateway calls (the nudge round
\* is one of them) and at most one tool-disabled call, the latter only after
\* the 25th round; every step of a run is one more gateway call or tool
\* dispatch, a run that has not ended can always take a step, and the number
\* of steps is bounded, so the run ends.
C1_BoundedRun ==
    /\ [](/\ gwCalls <= 25
          /\ round = gwCalls
          /\ summCalls <= 1
          /\ (summCalls = 1 \/ pc = "summ") => gwCalls = 25
          /\ dispatched <= gwCalls * MaxCalls
          /\ ~Terminal => ENABLED Next)
    /\ [][Steps' = Steps + 1]_vars

\* a run that used all 25 rounds, one of them for the nudge, and the summary call
C1_Witness ==
    /\ pc = "returned"
    /\ gwCalls = 25
    /\ summCalls = 1
    /\ incomplete_todos_prompted
    /\ toolRounds = 24

\* C2 as stated: whenever run() is about to call the gateway or has returned,
\* every call id of every tool-call message it appended has exactly one
\* tool-result message, in request order right after the tool-call message.
C2_Original ==
    pc \in {"call", "summ", "returned"} =>
        \A k \in ToolCallPositions(stored) : Answered(stored, k)

\* the last tool-call message of the Conversation
LastToolCall(msgs) == CHOOSE k \in ToolCallPositions(msgs) :
                          \A l \in ToolCallPositions(msgs) : l <= k

\* the tool-call message at position k of msgs is followed by tool results
\* carrying the ids and names of its first n calls, in request order
FollowedBy(msgs, k, n) ==
    \A j \in 1..n :
        /\ k + j <= Len(msgs)
        /\ IsToolResult(msgs[k + j])
        /\ msgs[k + j].tool_call_id = msgs[k].tool_calls[j].id
        /\ msgs[k + j].name = msgs[k].tool_calls[j].name

\* every tool-call message but the last has all its results right behind it,
\* and the last has those of its first n calls and nothing more
PairedUpTo(msgs, n) ==
    LET calls == ToolCallPositions(msgs)
    IN  calls # {} =>
            LET last == CHOOSE k \in calls : \A l \in calls : l <= k
            IN  /\ \A k \in calls \ {last} :
                       /\ FollowedBy(msgs, k, Len(msgs[k].tool_calls))
                       /\ ~IsToolResult(msgs[k + Len(msgs[k].tool_calls) + 1])
                /\ FollowedBy(msgs, last, n)
                /\ \A i \in (last + n + 1)..Len(msgs) : ~IsToolResult(msgs[i])

\* a step appends tool results only for ids that have no result yet
FreshResults ==
    \A i \in (Len(stored) + 1)..Len(stored') :
        IsToolResult(stored'[i]) => NoResultFor(stored, stored'[i].tool_call_id)

\* C2 amended: whenever run() is about to call the gateway or has returned,
\* every call id of every tool-call message has exactly one tool-result
\* message, in request order right after the tool-call message -- except that
\* in a round ended by a done call returning the sentinel only the calls up to
\* and including that done call have one, and the later calls of that round
\* have none.  While a round is being dispatched, the calls before the one
\* in turn have theirs.  No step appends a second result for an id.
C2_Pairing ==
    /\ [](/\ (pc \in {"call", "summ"} \/ (pc = "returned" /\ ~doneSeen)) =>
                 PairedUpTo(stored, Len(stored[LastToolCall(stored)].tool_calls))
          /\ (pc = "returned" /\ doneSeen) =>
                 /\ PairedUpTo(stored, tcIdx)
                 /\ stored[LastToolCall(stored) + tcIdx].name = "done"
                 /\ Len(stored) = LastToolCall(stored) + tcIdx + 1
          /\ pc = "tools" =>
                 /\ PairedUpTo(stored, tcIdx - 1)
                 /\ Len(stored) = LastToolCall(stored) + tcIdx - 1)
    /\ [][FreshResults]_vars

\* a run returned a text after two tool rounds, one of them with two calls
C2_Witness ==
    /\ pc = "returned"
    /\ ~doneSeen
    /\ toolRounds = 2
    /\ dispatched = 3

\* C3 as stated: in every message list sent to the gateway, each tool-role
\* message's tool_call_id is the id of exactly one tool call of an assistant
\* message earlier in the list.
C3_SentPaired ==
    \A i \in 1..Len(sent) :
        IsToolResult(sent[i]) =>
            Cardinality({ <<k, j>> \in (1..(i - 1)) \X (1..MaxCalls) :
                            /\ IsToolCallMsg(sent[k])
                            /\ j <= Len(sent[k].tool_calls)
                            /\ sent[k].tool_calls[j].id = sent[i].tool_call_id }) = 1

\* a tool result of this run: a tool-role message from the done tool whose
\* content starts with the sentinel, at position i of the Conversation
DoneResultAt(i) ==
    /\ IsToolResult(stored[i])
    /\ stored[i].name = "done"
    /\ StartsWith(stored[i].content, TASK_COMPLETE_PREFIX)

\* C4: once a done call of this run has produced a result that starts with
\* the sentinel, run() has returned: that result is the last tool result (no
\* later call of the round was dispatched), only the final assistant message
\* follows it, no summarization call was made, and a run that has returned
\* takes no further step (no gateway call, no dispatch).
C4_DoneShortCircuit ==
    /\ [](\A i \in 1..Len(stored) :
            (i >= runStart /\ runStart > 0 /\ DoneResultAt(i)) =>
                /\ pc = "returned"
                /\ i = Len(stored) - 1
                /\ stored[Len(stored)] = Msg("assistant", final_text)
                /\ Cardinality({ n \in runStart..Len(stored) : IsToolResult(stored[n]) }) = dispatched
                /\ Cardinality(ToolCallPositions(RunPart)) = toolRounds
                /\ summCalls = 0)
    /\ [][pc # "returned"]_vars

\* done was the first of two calls of its round and the second was not dispatched
C4_Witness ==
    /\ pc = "returned"
    /\ DoneResultAt(Len(stored) - 1)
    /\ Len(tool_calls) = 2
    /\ dispatched = 1

NudgeCount == Cardinality({ i \in 1..Len(messages) : messages[i] = Msg("user", NudgeText) })

HasOpenTodo == \E i \in 1..Len(todos) : todos[i].status \in {"pending", "in_progress"}

\* C5: the nudge is in the outbound list at most once per run; and when every
\* reply of the run came without tool calls while the todo list had a pending
\* or in-progress item, the run returned after exactly one nudge and two
\* gateway calls, the second reply being the final answer.
C5_NudgeOnce ==
    /\ NudgeCount <= 1
    /\ incomplete_todos_prompted <=> (NudgeCount = 1)
    /\ (Terminal /\ raised = "none" /\ toolRounds = 0 /\ HasOpenTodo) =>
           /\ pc = "returned"
           /\ NudgeCount = 1
           /\ gwCalls = 2
           /\ summCalls = 0
           /\ messages[Len(messages)] = Msg("user", NudgeText)
           /\ stored[Len(stored)] = Msg("assistant", final_text)

\* a run of two replies without tool calls and one nudge between them
C5_Witness ==
    /\ pc = "returned"
    /\ toolRounds = 0
    /\ HasOpenTodo
    /\ NudgeCount = 1
    /\ gwCalls = 2

\* C6 as stated: _execute_tool never raises into Agent.run().
C6_ExecuteNeverRaises == raised # "tool"

\* C7: a run whose 25 rounds all carried tool calls and completed makes one
\* further gateway call, with tools disabled, on the outbound list plus the
\* summary prompt; that call failing does not make run() raise; run() returns
\* the marker followed by the stripped text, or the canned message, and that
\* text is the last message of the Conversation.
C7_Exhaustion ==
    /\ (toolRounds = 25 /\ ~doneSeen /\ raised = "none" /\ pc # "tools") =>
           pc \in {"summ", "returned"}
    /\ (toolRounds = 25 /\ pc = "returned" /\ ~doneSeen) => summCalls = 1
    /\ summCalls = 1 =>
           /\ pc = "returned"
           /\ gwCalls = 25
           /\ ~sentTools
           /\ sent = Append(messages, Msg("user", MAX_ITERATIONS_SUMMARY_PROMPT))
           /\ \/ final_text = MaxIterationsCanned
              \/ /\ Len(final_text) > 2
                 /\ final_text[1] = MaxIterationsMarker
                 /\ final_text[3] \notin Whitespace
                 /\ final_text[Len(final_text)] \notin Whitespace
           /\ stored[Len(stored)] = Msg("assistant", final_text)

\* 25 tool rounds, then a summary call that produced a text
C7_Witness ==
    /\ pc = "returned"
    /\ toolRounds = 25
    /\ summCalls = 1
    /\ final_text[1] = MaxIterationsMarker

\* the run's part of the Conversation: the user message, then per tool round
\* one tool-call message followed by tool results for its calls in request
\* order (all of them, or in the last round the ones up to a done call that
\* ended the run), then one assistant message with the returned text
Transcript(part) ==
    /\ Len(part) = 2 + toolRounds + dispatched
    /\ part[1] = Msg("user", user_message)
    /\ part[Len(part)] = Msg("assistant", final_text)
    /\ Cardinality(ToolCallPositions(part)) = toolRounds
    /\ \A i \in 2..(Len(part) - 1) : IsToolCallMsg(part[i]) \/ IsToolResult(part[i])
    /\ \A k \in ToolCallPositions(part) :
           \E n \in 1..Len(part[k].tool_calls) :
               /\ AnsweredUpTo(part, k, n)
               /\ \/ k + n + 1 = Len(part)
                  \/ IsToolCallMsg(part[k + n + 1]) /\ n = Len(part[k].tool_calls)

\* C8: starting from an empty Conversation, when run(u) has returned T the
\* Conversation is exactly the transcript of the run: 2 messages when the
\* first reply had no tool calls, 4 for one single-call round and a text reply.
C8_Transcript ==
    (pc = "returned" /\ runStart = 1) =>
        /\ Transcript(stored)
        /\ toolRounds = 0 => Len(stored) = 2
        /\ (toolRounds = 1 /\ dispatched = 1) => Len(stored) = 4

\* Scenario B: one single-call tool round, then a text reply, from an empty Conversation
C8_Witness ==
    /\ pc = "returned"
    /\ runStart = 1
    /\ toolRounds = 1
    /\ dispatched = 1
    /\ ~doneSeen
    /\ Len(stored) = 4
    /\ final_text = <<"t">>

-----------------------------------------------------------------------------
(* Properties of chat_completion()                                         *)

\* the failures the retry policy is meant for: rate-limit and server-error
\* status codes, timeouts and connection failures
RetryableFailure(e) ==
    \/ e.status \in {429, 500, 502, 503, 504}
    \/ e.type \in {"TimeoutError", "ConnectionError"}

AllRetryable == \A i \in 1..Len(errors) : RetryableFailure(errors[i])

\* C9: when the backend failed with retryable errors twice and the retry
\* budget allows two retries (the default does), chat_completion has not
\* raised, and once the third backend call succeeds it returns that response
\* after exactly three backend calls and two sleeps; when the first failure is
\* not retryable it raises that error after one backend call and no sleep.
C9_RetryThenSucceed ==
    /\ (Len(errors) = 2 /\ AllRetryable /\ max_retries >= 2) => cc_pc # "raised"
    /\ (cc_pc = "returned" /\ Len(errors) = 2) =>
           /\ AllRetryable
           /\ backendCalls = 3
           /\ Len(sleeps) = 2
           /\ cc_result = "response"
    /\ (errors # <<>> /\ ~RetryableFailure(errors[1])) =>
           /\ cc_pc = "raised"
           /\ backendCalls = 1
           /\ sleeps = <<>>
           /\ cc_result = errors[1].type

\* two failures, a timeout among them, then success under the default budget
C9_Witness ==
    /\ cc_pc = "returned"
    /\ max_retries = DefaultMaxRetries
    /\ Len(errors) = 2
    /\ errors[1].type = "TimeoutError"
    /\ errors[2].status = 503
    /\ backendCalls = 3

\* C10 as stated: chat_completion makes at most the configured count
\* (max_retries, default 3) of backend calls in total.
C10_Original == max_retries >= 1 => backendCalls <= max_retries

\* C10 amended: the configured count is the number of retries, so with a
\* backend that always fails with a retryable error chat_completion makes
\* max_retries + 1 backend calls in total (4 by default), sleeping max_retries
\* times, and then raises the last error; it never makes more calls than that.
C10_Attempts ==
    /\ max_retries >= 0 => backendCalls <= max_retries + 1
    /\ (cc_pc = "raised" /\ max_retries >= 0 /\ AllRetryable) =>
           /\ backendCalls = max_retries + 1
           /\ Len(errors) = backendCalls
           /\ Len(sleeps) = max_retries
           /\ cc_result = errors[Len(errors)].type
           /\ last_err = errors[Len(errors)]
    /\ (max_retries >= 0 /\ AllRetryable /\ Len(errors) <= max_retries) => cc_pc # "raised"

\* the default budget used up by four retryable failures
C10_Witness ==
    /\ cc_pc = "raised"
    /\ max_retries = DefaultMaxRetries
    /\ AllRetryable
    /\ backendCalls = 4
    /\ cc_result = "ConnectionError"

-----------------------------------------------------------------------------
(* Failures of the gateway and of the store                                *)

\* C11: when a tool-enabled gateway call of rounds 1..25 fails, run() raises:
\* it returns no text and appends no final assistant message, the step that
\* raises leaves the Conversation and the outbound list as they were, so the
\* Conversation part of this run is the user message followed by the
\* tool-call messages and tool results of the completed rounds, and a run
\* that has raised takes no further step.
C11_GatewayFailurePropagates ==
    /\ [](raised = "gateway" =>
            /\ pc = "raised"
            /\ final_text = NoneText
            /\ sentTools
            /\ gwCalls \in 1..MAX_TOOL_ITERATIONS
            /\ summCalls = 0
            /\ Len(RunPart) = 1 + toolRounds + dispatched
            /\ RunPart[1] = Msg("user", user_message)
            /\ \A i \in 2..Len(RunPart) : IsToolCallMsg(RunPart[i]) \/ IsToolResult(RunPart[i]))
    /\ [][(raised = "none" /\ raised' = "gateway") =>
             (stored' = stored /\ messages' = messages /\ pc' = "raised")]_vars
    /\ [][pc # "raised"]_vars

\* the gateway failed in the second round, after a completed tool round
C11_Witness ==
    /\ raised = "gateway"
    /\ pc = "raised"
    /\ gwCalls = 2
    /\ toolRounds = 1
    /\ Len(stored) = 3

\* C12 as stated: once Drive has rejected the write of a Conversation append
\* (the session file is marked for a deferred sync), run() has raised.
C12_StoreFailureStops == pending_sync => pc = "raised"

-----------------------------------------------------------------------------
(* Properties of subagents and of the context-local bindings               *)

\* subagent runs in progress in call chain c
SubFrames(c) == Cardinality({ i \in 1..Len(stack[c]) : stack[c][i].kind = "sub" })

\* C13: in every call chain at most one spawn_subagent-created run is in
\* progress; a spawn_subagent call made while a subagent run is in progress in
\* the chain (directly in it or in a run nested in it) returns the depth
\* error, and that step constructs no Session, starts no run and changes
\* neither the active session nor the depth counter.
C13_DepthCap ==
    /\ [](\A c \in Chains :
            /\ SubFrames(c) <= 1
            /\ (log[c].op = "spawn" /\ log[c].depth >= 1) => log[c].result = "rejected")
    /\ [][\A c \in Chains :
             (ops'[c] < ops[c] /\ log'[c].op = "spawn" /\ SubFrames(c) >= 1) =>
                 /\ log'[c].result = "rejected"
                 /\ UNCHANGED <<stack, files, session_ctx, depth_ctx, todos_by_session>>]_vars

\* a spawn was rejected in a cron run nested in a subagent run
C13_Witness ==
    \E c \in Chains :
        /\ log[c].op = "spawn"
        /\ log[c].result = "rejected"
        /\ SubFrames(c) = 1
        /\ Top(c).kind = "cron"

\* C14 as stated: every spawn_subagent call that proceeds constructs its
\* child Session on an identity without stored messages.
C14_FreshChild ==
    \A c \in Chains :
        (log[c].op = "spawn" /\ log[c].result = "started") => log[c].loaded = 0

\* C15 as stated: todo_write, todo_read and the nudge decision issued by the
\* top-level run of a call chain use the todo list keyed by that run's own
\* conversation identity.
C15_TodoIsolation ==
    \A c \in Chains :
        (log[c].op \in {"todo_write", "todo_read", "reply"} /\ Len(stack[c]) <= 1
         /\ log[c].run = Identity(c)) => log[c].key = Identity(c)

\* C16: a step of one call chain leaves the depth counter of every other
\* chain as it was; a spawn_subagent call is rejected for depth only when a
\* subagent run is in progress in the calling chain itself, and a call made
\* while none is in progress there is not rejected for depth, whatever the
\* other chains are doing.
C16_DepthPerChain ==
    /\ [](\A c \in Chains :
            (log[c].op = "spawn" /\ log[c].result = "rejected") => SubFrames(c) >= 1)
    /\ [][\A c \in Chains : ops'[c] = ops[c] => depth_ctx'[c] = depth_ctx[c]]_vars
    /\ [][\A c \in Chains :
             (ops'[c] < ops[c] /\ log'[c].op = "spawn" /\ SubFrames(c) = 0) =>
                 log'[c].result \in {"started", "no task"}]_vars

\* chain B's spawn proceeded while chain A's subagent was running
C16_Witness ==
    /\ SubFrames("A") = 1
    /\ SubFrames("B") = 1
    /\ log["B"].op = "spawn"
    /\ log["B"].result = "started"
    /\ depth_ctx["A"] = 1

\* C34: the depth counter of a call chain is the number of subagent runs in
\* progress in it, which is 0 or 1; the step that ends a subagent run, by a
\* return or by an exception, puts the counter back to the value spawn_subagent
\* read before it started the run; and a spawn_subagent call made after an
\* earlier subagent of the chain has ended is not rejected for depth.
C34_DepthRestored ==
    /\ [](\A c \in Chains : depth_ctx[c] \in {0, 1} /\ depth_ctx[c] = SubFrames(c))
    /\ [][\A c \in Chains :
             (Len(stack'[c]) < Len(stack[c]) /\ Top(c).kind = "sub") =>
                 /\ log'[c].result \in {"returned", "raised"}
                 /\ depth_ctx'[c] = Top(c).token
                 /\ depth_ctx'[c] = depth_ctx[c] - 1]_vars
    /\ [][\A c \in Chains :
             (ops'[c] < ops[c] /\ log'[c].op = "spawn" /\ depth_ctx[c] = 0
              /\ log[c].op \in {"reply", "raise"}) =>
                 log'[c].result \in {"started", "no task"}]_vars

\* a top-level run started a second subagent after its first one had ended:
\* the active session still names the first child, and the depth read was 0
C34_Witness ==
    \E c \in Chains :
        /\ Len(stack[c]) = 2
        /\ stack[c][1].kind = "top"
        /\ Top(c).kind = "sub"
        /\ log[c].op = "spawn"
        /\ log[c].result = "started"
        /\ log[c].depth = 0
        /\ Head(log[c].key) = "sub_"
        /\ depth_ctx[c] = 1

\* C35 as stated: a cron_create call of the agent that leaves session_id empty
\* creates a task whose session_id is the conversation identity of the run
\* that dispatched the tool.
C35_CronCreateIdentity ==
    \A c \in Chains :
        (log[c].op = "cron_create" /\ log[c].result = "defaulted") =>
            /\ log[c].key = log[c].run
            /\ cron_file[Len(cron_file)].session_id = log[c].run

-----------------------------------------------------------------------------
(* Properties of the dispatch loop, the Session and extract_response       *)

\* the last n messages of msgs are the results of the first n calls of the
\* round in progress, in request order, right behind its tool-call message
ResultsTail(msgs, n) ==
    /\ Len(msgs) > n
    /\ IsToolCallMsg(msgs[Len(msgs) - n])
    /\ \A j \in 1..n :
           /\ IsToolResult(msgs[Len(msgs) - n + j])
           /\ msgs[Len(msgs) - n + j].tool_call_id = tool_calls[j].id

\* C17: every step of run() dispatches at most one tool call; while the call
\* at index i of a round is waiting to be dispatched, the results of the i-1
\* calls before it are the last messages of the outbound list and of the
\* Conversation, in request order; and the step that dispatches a call
\* appends its result to both before the next call is in turn.
C17_SequentialDispatch ==
    /\ [](pc = "tools" =>
            /\ tcIdx \in 1..Len(tool_calls)
            /\ ResultsTail(messages, tcIdx - 1)
            /\ ResultsTail(stored, tcIdx - 1))
    /\ [][dispatched' \in {dispatched, dispatched + 1}]_vars
    /\ [][(dispatched' = dispatched + 1 /\ pc' = "tools") =>
             /\ tcIdx' = tcIdx + 1
             /\ Len(messages') = Len(messages) + 1
             /\ Len(stored') = Len(stored) + 1
             /\ messages'[Len(messages')].tool_call_id = tool_calls[tcIdx].id
             /\ stored'[Len(stored')].tool_call_id = tool_calls[tcIdx].id]_vars

\* the second call of a round is in turn and the first call's result is appended
C17_Witness ==
    /\ pc = "tools"
    /\ tcIdx = 2
    /\ Len(tool_calls) = 2
    /\ IsToolResult(stored[Len(stored)])
    /\ stored[Len(stored)].tool_call_id = tool_calls[1].id

\* s is t with messages added at the end
IsExtension(s, t) == Len(s) >= Len(t) /\ SubSeq(s, 1, Len(t)) = t

\* C18 as stated: every public Session operation either extends the message
\* sequence at the end, earlier messages unchanged, or truncates it to empty.
C18_AppendOnly == [][IsExtension(stored', stored) \/ stored' = <<>>]_vars

\* C19 as stated: extract_response never raises into Agent.run().
C19_ExtractNeverRaises == raised # "extract"

\* C20 as stated: when extract_response returned a non-empty tool-call list
\* (the run is dispatching it), the text it returned is None.
C20_TextAbsentWithCalls == (pc = "tools" /\ tool_calls # <<>>) => run_text = NoneText

-----------------------------------------------------------------------------
(* Properties of tool dispatch                                             *)

\* the dispatch in turn is waiting for a callable that never completes
Hung == pc = "tools" /\ _execute_tool(tool_calls[tcIdx]).kind = "pending"

\* C21 as stated: a tool dispatch whose callable never completes eventually
\* resolves, so that the round goes on with the next call or model call.
C21_DispatchResolves == [](Hung => <>(~Hung))

\* the callables inspect.getmembers finds in the modules and the filter keeps
Discovered(mods) ==
    { Callable(p[1], p[2]) :
        p \in { q \in (1..Len(mods)) \X ToolNames : q[2] \in mods[q[1]] /\ ~IsPrivate(q[2]) } }

\* C22 as stated: registry construction completes only when no two discovered
\* callables have the same name, and then the registry and the schema list
\* have exactly one entry per discovered callable.
C22_CollisionReported ==
    discover_pc = "built" =>
        /\ \A f, g \in Discovered(tool_modules) : f[2] = g[2] => f = g
        /\ Cardinality(DOMAIN registry) = Cardinality(Discovered(tool_modules))
        /\ tool_schemas = Discovered(tool_modules)

\* m is the tool result that _execute_tool's unknown-tool error makes for call tc
UnknownToolResult(m, tc) ==
    /\ IsToolResult(m)
    /\ m.tool_call_id = tc.id
    /\ m.name = tc.name
    /\ Head(m.content) = "Error: unknown tool"
    /\ m.content[Len(m.content)] = tc.name

\* C23: when the call in turn names a tool absent from the registry, the step
\* that dispatches it does not end run(): it appends, to the outbound list and
\* to the Conversation, the tool result for that call id whose content is the
\* error text containing the name, and goes on with the next call of the
\* round or, after the last one, with the next model call.
C23_UnknownToolContinues ==
    /\ [](\A i \in 1..Len(stored) :
            (IsToolResult(stored[i]) /\ stored[i].name \notin _TOOL_REGISTRY) =>
                /\ Head(stored[i].content) = "Error: unknown tool"
                /\ stored[i].content[Len(stored[i].content)] = stored[i].name)
    /\ [][(pc = "tools" /\ tool_calls[tcIdx].name \notin _TOOL_REGISTRY) =>
             /\ raised' = "none"
             /\ Len(stored') = Len(stored) + 1
             /\ UnknownToolResult(stored'[Len(stored')], tool_calls[tcIdx])
             /\ Len(messages') = Len(messages) + 1
             /\ UnknownToolResult(messages'[Len(messages')], tool_calls[tcIdx])
             /\ IF tcIdx < Len(tool_calls)
                THEN pc' = "tools" /\ tcIdx' = tcIdx + 1
                ELSE pc' \in {"call", "summ"}]_vars

\* an unknown tool was answered with the error, the call after it in the same
\* round was dispatched, and the next model call ended the run
C23_Witness ==
    /\ pc = "returned"
    /\ gwCalls = 2
    /\ \E i \in 1..(Len(stored) - 1) :
           /\ IsToolResult(stored[i])
           /\ stored[i].name = "no_such_tool"
           /\ IsToolResult(stored[i + 1])
           /\ stored[i + 1].name = "web_search"

AllBlank(m) == \A k \in 1..Len(m) : m[k] \in Whitespace

\* t is m without its leading and trailing whitespace, and is not empty
IsTrimOf(t, m) ==
    /\ t # <<>>
    /\ t[1] \notin Whitespace
    /\ t[Len(t)] \notin Whitespace
    /\ \E i \in 1..Len(m) :
           /\ i + Len(t) - 1 <= Len(m)
           /\ SubSeq(m, i, i + Len(t) - 1) = t
           /\ \A k \in 1..Len(m) : (k < i \/ k > i + Len(t) - 1) => m[k] \in Whitespace

\* C24 as stated: when a done call with message m ended the run, run()
\* returned exactly m and the final assistant message is exactly m.
C24_Original ==
    (pc = "returned" /\ doneSeen) =>
        /\ final_text = tool_calls[tcIdx].message
        /\ stored[Len(stored)] = Msg("assistant", tool_calls[tcIdx].message)

\* C24 amended: when a done call with message m ended the run, run() returned
\* m without its leading and trailing whitespace, or "Task completed." when
\* nothing is left of m, and appended that text as the final assistant
\* message; it is exactly m when m is not empty and neither starts nor ends
\* with whitespace.
C24_DoneText ==
    (pc = "returned" /\ doneSeen) =>
        LET m == tool_calls[tcIdx].message
        IN  /\ stored[Len(stored)] = Msg("assistant", final_text)
            /\ IF AllBlank(m) THEN final_text = <<"Task completed.">>
                              ELSE IsTrimOf(final_text, m)
            /\ (m # <<>> /\ m[1] \notin Whitespace /\ m[Len(m)] \notin Whitespace) =>
                   final_text = m

\* done was called with a message padded with blanks
C24_Witness ==
    /\ pc = "returned"
    /\ doneSeen
    /\ tool_calls[tcIdx].message = <<Blank, "a", Blank>>
    /\ final_text = <<"a">>

-----------------------------------------------------------------------------
(* Properties of the retry waits                                           *)

\* C25: for a non-negative base delay, the wait before retry number k (k = 0
\* for the first retry) is min(base_delay * 2^k, 20 s) plus a jitter between 0
\* and a tenth of that value; no wait exceeds 22 s, the un-jittered waits do
\* not decrease with k, and one wait precedes every retry.
C25_Backoff ==
    /\ Len(sleeps) = attempt + (IF cc_pc = "sleeping" THEN 1 ELSE 0)
    /\ \A i \in 1..Len(sleeps) :
           LET k == i - 1
               w == sleeps[i]
           IN  /\ w.backoff = (IF base_delay * 2^k < 20000 THEN base_delay * 2^k ELSE 20000)
               /\ w.jitter >= 0
               /\ 10 * w.jitter <= w.backoff
               /\ w.backoff + w.jitter <= 22000
               /\ i > 1 => sleeps[i - 1].backoff <= w.backoff

\* the third wait of an 8-second base delay: capped at 20 s, with the largest jitter
C25_Witness ==
    /\ Len(sleeps) = 3
    /\ base_delay = 8000
    /\ sleeps[2].backoff = 16000
    /\ sleeps[3].backoff = 20000
    /\ sleeps[3].jitter = 2000

-----------------------------------------------------------------------------
(* Properties of the Telegram handler                                      *)

\* the sender of the handled update is on a configured allow-list
Listed ==
    \/ _normalize_username(OrElse(tg_update.username, <<>>)) \in allowed_users(tg_cfg)
    \/ tg_update.id \in allowed_ids(tg_cfg)

\* C26: the handler ran the agent only for a sender whose normalized username
\* or numeric id is in a configured allow-list; any other sender got the
\* rejection reply and no Session or Agent was created; with all allow-lists
\* empty nobody is served.
C26_OnlyListedServed ==
    tg_out.handled =>
        /\ (tg_out.runs # <<>> \/ tg_out.sessions # {}) => Listed
        /\ ~Listed => /\ tg_out.replies = <<"Unauthorized.">>
                      /\ tg_out.sessions = {}
                      /\ tg_out.runs = <<>>
        /\ (allowed_users(tg_cfg) = {} /\ allowed_ids(tg_cfg) = {}) =>
               /\ tg_out.replies = <<"Unauthorized.">>
               /\ tg_out.runs = <<>>

\* a sender "A" served through the normalized entry "@A" of a comma-separated
\* list, its id being on no list
C26_Witness ==
    /\ tg_out.handled
    /\ tg_out.runs # <<>>
    /\ tg_update.username = <<"A">>
    /\ tg_update.id \notin allowed_ids(tg_cfg)
    /\ tg_cfg["allowed_user"] = OneString(<<" ", "@", "A", ",", "b", " ">>)

-----------------------------------------------------------------------------
(* Properties of the active session identity                               *)

\* C27 as stated: while a run for identity S is the innermost run of its call
\* chain, the active session identity is S; so it is S again once a nested
\* run started by spawn_subagent or cron_run_due has returned, and todo_read,
\* todo_write and the nudge decision of the run use the key S.
C27_ActiveIdentity ==
    \A c \in Chains :
        /\ stack[c] # <<>> => session_ctx[c] = Top(c).id
        /\ log[c].op \in {"todo_write", "todo_read"} => log[c].key = log[c].run

-----------------------------------------------------------------------------
(* Properties of a conversation shared by several Session instances        *)

\* the members of seq that are in the set keep, in the order of seq
Restrict(seq, keep) ==
    LET In(x) == x \in keep
    IN  SelectSeq(seq, In)

\* C28 as stated: the messages appended to the identity since its last
\* clear(), through whichever Session instance, are all in the persisted log,
\* in the order they were appended.
C28_AppendsKept ==
    Restrict(disk_log, { appended[k] : k \in 1..Len(appended) }) = appended

-----------------------------------------------------------------------------
(* Properties of the cron scheduler                                        *)

\* Agent.run() invocations in progress in the call chain
RunDepth ==
    Cardinality({ i \in 1..Len(cron_stack) : cron_stack[i].kind # "due" })

\* C29 as stated: the number of Agent.run() invocations nested in one call
\* chain stays within a constant, whatever the model asks for, counting runs
\* started by spawn_subagent and runs started by cron_run_due. The constant
\* taken is three: a caller's run, a subagent run inside it and the run of a
\* due task inside that, each way of starting a run used once.
C29_NestingBounded == RunDepth <= 3

\* C30 as stated: the persisted task list holds exactly the tasks that
\* create_task added and delete_task did not remove, also after a
\* run_due_tasks invocation that was executing meanwhile has saved.
C30_CronEditsKept == TaskIds(cron_file) = cron_made

-----------------------------------------------------------------------------
(* Properties of the message list of the first gateway call                *)

\* C33: the first gateway call of a run sends one system message followed by
\* the last min(40, n) messages of the n-message Conversation, in stored
\* order and unaltered, ending with the user message the run just appended;
\* nothing stands in for the older messages.
C33_FirstWindow ==
    [][(gwCalls = 0 /\ gwCalls' = 1) =>
          LET n == Len(stored)
              k == IF n < 40 THEN n ELSE 40
          IN  /\ Len(sent') = k + 1
              /\ sent'[1].role = "system"
              /\ \A i \in 1..k : sent'[i + 1] = stored[n - k + i]
              /\ \A i \in 1..k : sent'[i + 1].role # "system"
              /\ sent'[k + 1] = Msg("user", user_message)]_vars

\* the first call of a run on a 42-message Conversation sent 41 messages
C33_Witness ==
    /\ gwCalls = 1
    /\ runStart = 42
    /\ Len(sent) = 41
    /\ sent[41] = Msg("user", user_message)

-----------------------------------------------------------------------------
(* Properties of the nudge round                                           *)

\* C36: in the round where the continuation nudge fires, the nudge is
\* appended to the outbound list and nothing else is; the Conversation, and
\* with it the persisted log and its sync mark, are as they were before the
\* round: neither the nudge nor the reply the model gave is stored.
C36_NudgeNotStored ==
    [][(~incomplete_todos_prompted /\ incomplete_todos_prompted') =>
          /\ messages' = Append(messages, Msg("user", NudgeText))
          /\ stored' = stored
          /\ pending_sync' = pending_sync
          /\ UNCHANGED <<drive, lastOp>>]_vars

\* the nudge has just fired on a reply that carried a text
C36_Witness ==
    /\ incomplete_todos_prompted
    /\ pc = "call"
    /\ gwCalls = 1
    /\ Truthy(run_text)
    /\ messages[Len(messages)] = Msg("user", NudgeText)
    /\ stored[Len(stored)] = Msg("user", user_message)

-----------------------------------------------------------------------------
(* cron_service.py: one run_due_tasks call over a stored task list, with    *)
(* the clock (`now`, here in minutes) advancing while the agents run        *)

\* a selection that looks at the time only
IsDue_ignores_enabled(t, at) == t.ok /\ t.next_run <= at

\* the test of the selection loop: enabled, next_run_utc non-empty and
\* parsable (`ok`), and at or before the `now` taken when the call started
IsDue(t, at) == t.enabled /\ t.ok /\ t.next_run <= at

\* the call in progress, or the one that ended last
DueCall == cron_stack[1]

InitDue ==
    LET \* a stored task; last_run -1 stands for the empty last_run_utc
        DueTask(id, enabled, ok, next_run, interval) ==
            [id |-> id, enabled |-> enabled, ok |-> ok, next_run |-> next_run,
             interval |-> interval, last_run |-> -1]
    IN
    LET \* the tasks the file may hold under an id
        TasksFor(id) ==
            { DueTask(id, e, TRUE, nr, iv) : e \in BOOLEAN, nr \in 0..1, iv \in 1..2 }
            \cup { DueTask(id, e, FALSE, 0, iv) : e \in BOOLEAN, iv \in 1..2 }
    IN
    /\ runIdle
    /\ ccIdle
    /\ storeIdle("up")
    /\ ctxIdle
    /\ tool_env = "prompt"
    /\ auxIdle("cron")
    /\ \E n \in 0..MaxDueTasks :
         \E f \in [1..n -> UNION { TasksFor(id) : id \in 1..n }] :
            /\ \A i \in 1..n : f[i].id = i
            /\ cron_file = f
    /\ cron_stack = <<>>
    /\ cron_ids = 0
    /\ cron_made = {}
    /\ cron_budget = 0

\* run_due_tasks(limit) up to the first agent run: take `now`, load the list,
\* select the due tasks and cut the selection to max(1, limit); with none due
\* it returns at once and saves nothing
DueSelect ==
    /\ cron_stack = <<>>
    /\ \E limit \in 0..MaxDueTasks :
         LET all == SelectSeq(cron_file, LAMBDA t : IsDue(t, now))
             cap == IF limit < 1 THEN 1 ELSE limit
             n   == IF Len(all) < cap THEN Len(all) ELSE cap
             due == [i \in 1..n |-> all[i].id]
         IN  cron_stack' =
                <<[kind |-> IF due = <<>> THEN "returned" ELSE "running",
                   tasks |-> cron_file, due |-> due,
                   pos |-> IF due = <<>> THEN 0 ELSE 1,
                   limit |-> limit, start |-> now, results |-> <<>>]>>
    /\ UNCHANGED <<cron_file, now>>
    /\ UNCHANGED <<cron_ids, cron_made, cron_budget>>
    /\ UNCHANGED <<tool_env, discover_pc, tool_modules, registry, tool_schemas, tg_cfg, tg_update, tg_out>>
    /\ UNCHANGED <<disk_log, mem_log, appended, append_count>>
    /\ UNCHANGED <<session_ctx, depth_ctx, todos_by_session, files, stack, ops, log>>
    /\ UNCHANGED <<runVars, ccVars, storeVars>>

\* a minute passes while the agent of a due task runs
DueTick ==
    /\ cron_stack # <<>>
    /\ DueCall.kind = "running"
    /\ now < MaxDueClock
    /\ now' = now + 1
    /\ UNCHANGED <<cron_file, cron_stack>>
    /\ UNCHANGED <<cron_ids, cron_made, cron_budget>>
    /\ UNCHANGED <<tool_env, discover_pc, tool_modules, registry, tool_schemas, tg_cfg, tg_update, tg_out>>
    /\ UNCHANGED <<disk_log, mem_log, appended, append_count>>
    /\ UNCHANGED <<session_ctx, depth_ctx, todos_by_session, files, stack, ops, log>>
    /\ UNCHANGED <<runVars, ccVars, storeVars>>

\* the agent run of the executing task ends. It returns ("ok") or raises
\* within the Exception hierarchy ("error"): the task is rescheduled on the
\* loaded list, a result is recorded, and the loop goes on or, after the
\* last due task, saves the merged list and returns. Or it raises outside the
\* Exception hierarchy ("exit": SystemExit, CancelledError), which `except
\* Exception` does not catch: the exception leaves run_due_tasks at once
DueTaskEnds ==
    /\ cron_stack # <<>>
    /\ DueCall.kind = "running"
    /\ \E outcome \in {"ok", "error", "exit"} :
         IF outcome = "exit"
         THEN /\ cron_stack' = <<[DueCall EXCEPT !.kind = "escaped"]>>
              /\ UNCHANGED cron_file
         ELSE LET id == DueCall.due[DueCall.pos]
                  tasks == [i \in 1..Len(DueCall.tasks) |->
                              IF DueCall.tasks[i].id = id
                              THEN [DueCall.tasks[i] EXCEPT
                                      !.last_run = now,
                                      !.next_run = now + (IF DueCall.tasks[i].interval < 1 THEN 1
                                                         ELSE DueCall.tasks[i].interval)]
                              ELSE DueCall.tasks[i]]
                  results == Append(DueCall.results, [id |-> id, status |-> outcome, at |-> now])
              IN  IF DueCall.pos < Len(DueCall.due)
                  THEN /\ cron_stack' = <<[DueCall EXCEPT !.tasks = tasks, !.results = results,
                                                          !.pos = DueCall.pos + 1]>>
                       /\ UNCHANGED cron_file
                  ELSE /\ cron_stack' = <<[DueCall EXCEPT !.tasks = tasks, !.results = results,
                                                          !.kind = "returned"]>>
                       /\ cron_file' = tasks
    /\ UNCHANGED now
    /\ UNCHANGED <<cron_ids, cron_made, cron_budget>>
    /\ UNCHANGED <<tool_env, discover_pc, tool_modules, registry, tool_schemas, tg_cfg, tg_update, tg_out>>
    /\ UNCHANGED <<disk_log, mem_log, appended, append_count>>
    /\ UNCHANGED <<session_ctx, depth_ctx, todos_by_session, files, stack, ops, log>>
    /\ UNCHANGED <<runVars, ccVars, storeVars>>

NextDue ==
    \/ DueSelect
    \/ DueTick
    \/ DueTaskEnds

SpecDue == InitDue /\ [][NextDue]_vars

\* C31 as stated: when a run_due_tasks call is over, every task it executed,
\* whether its agent run returned or raised, is stored with a next run at
\* least one minute after its execution and later than the present time,
\* every failing task has a result, and all the due tasks selected have run.
C31_Rescheduled ==
    (cron_stack # <<>> /\ DueCall.kind \in {"returned", "escaped"}) =>
        /\ Len(DueCall.results) = DueCall.pos
        /\ DueCall.pos = Len(DueCall.due)
        /\ \A k \in 1..Len(DueCall.results) :
             \E i \in 1..Len(cron_file) :
                /\ cron_file[i].id = DueCall.results[k].id
                /\ cron_file[i].next_run >= DueCall.results[k].at + 1
                /\ cron_file[i].next_run > now

\* position of the executing task among the due tasks; 0 before the call
DuePos == IF cron_stack = <<>> THEN 0 ELSE DueCall.pos

\* a task the call must not touch: disabled, unparsable or not yet due at `at`
Ineligible(t, at) == ~t.enabled \/ ~t.ok \/ t.next_run > at

-----------------------------------------------------------------------------
(* tools.py: todo_write on its own, over every item list                   *)

\* todo_write(items), awaited by _execute_tool in the run's own context: the
\* active session's list becomes the parsed non-blank items
todo_write ==
    LET \* the item texts a caller may pass
        ItemTexts ==
            { <<"[ ]", Blank, "a">>, <<Blank, "[>]", Blank, "a", Blank>>,
              <<"[x]", Blank, "a">>, <<"[X]", Blank, "a">>, <<"a">>,
              <<Blank>>, <<"[ ]">>, <<>>, <<"b">>, <<"[>]", Blank, "b">> }
    IN
    /\ pc = "idle"
    /\ \E n \in 0..MaxTodoItems : \E items \in [1..n -> ItemTexts] :
          LET call == Kind("todo_write", "ok", "ok", <<>>, items, "returns")
          IN  /\ _execute_tool(call).kind = "str"
              /\ tool_calls' = <<call>>
              /\ todos' = TodosAfter(call, todos)
    /\ UNCHANGED <<pc, stored, messages, round, incomplete_todos_prompted, tcIdx,
                   final_text, raised, sent, sentTools, gwCalls, summCalls,
                   toolRounds, dispatched, doneSeen, nextId, free,
                   user_message, runStart, run_text>>
    /\ UNCHANGED <<ccVars, storeVars, ctxVars, auxVars>>

NextTodo == todo_write

SpecTodo == Init /\ [][NextTodo]_vars

\* the status the prefix of a non-blank item stands for; the prefix is read
\* after stripping and without regard to case
PrefixStatus(item) ==
    LET first == Head(Strip(item))
    IN  IF first \in {"[x]", "[X]"} THEN "completed"
        ELSE IF first = "[>]" THEN "in_progress" ELSE "pending"

\* C37: after todo_write(items) the session's todo list holds one entry per
\* non-blank item, in the order given and whatever the list held before, with
\* the status its prefix stands for ('[ ]' pending, '[>]' in_progress, '[x]'
\* completed, no prefix pending); and the nudge predicate is true exactly when
\* some entry of that list is pending or in_progress
C37_TodoWriteReplaces ==
    (tool_calls # <<>> /\ tool_calls[1].name = "todo_write") =>
        LET given == SelectSeq(tool_calls[1].items, LAMBDA it : ~AllBlank(it))
        IN  /\ Len(todos) = Len(given)
            /\ \A i \in 1..Len(given) :
                  /\ todos[i].status = PrefixStatus(given[i])
                  /\ todos[i].content # <<>>
                  /\ \A k \in 1..Len(todos[i].content) :
                        todos[i].content[k] \notin {"[ ]", "[>]", "[x]", "[X]"}
            /\ _has_incomplete_todos(todos)
                  <=> \E i \in 1..Len(todos) : todos[i].status \in {"pending", "in_progress"}

\* a write of a blank and a completed item: one entry, nothing left to nudge
\* for, whether the list was empty or held an item in progress before
C37_Witness ==
    /\ tool_calls # <<>>
    /\ tool_calls[1].name = "todo_write"
    /\ tool_calls[1].items = << <<Blank>>, <<"[x]", Blank, "a">> >>
    /\ todos = << TodoItem(<<"a">>, "completed") >>
    /\ ~_has_incomplete_todos(todos)

====
